---- MODULE Spec2Model ----
(***************************************************************************)
(* A model of the tnetstring codec: the untyped value-tree parser          *)
(* (src/src/lib.rs), the typed serializer (src/src/ser.rs) and the typed   *)
(* deserializer (src/src/de.rs).                                           *)
(*                                                                         *)
(* Bytes are one-character strings and a byte string is a sequence of      *)
(* them.  Every byte is ASCII, so a Rust str and its bytes have the same   *)
(* length and String::from_utf8_lossy changes nothing.                     *)
(***************************************************************************)
EXTENDS Integers, Sequences, FiniteSets

VARIABLES
    pc,       \* the operation that has been applied
    data,     \* the input bytes of parse or from_str
    ghost,    \* how the input was drawn (never read by the program)
    res,      \* the outcome of the operation
    output,   \* the serializer's staging stack
    profile   \* the build: "debug" checks integer overflow, "release" wraps

vars == <<pc, data, ghost, res, output, profile>>

(***************************************************************************)
(* Bounds of the model.                                                    *)
(***************************************************************************)
\* children (or pairs) per generated list or dict frame
MaxKids == 2
\* nesting depth of the generated frames
MaxDepth == 2
\* byte length of a generated frame
MaxFrameLen == 14
\* length of the raw byte strings tried besides the generated frames
MaxRawLen == 2
\* elements of a generated Vec
MaxSeqLen == 2
\* by how much a declared length exceeds the payload in an overlong frame
MaxExcess == 4

\* how far from the ends of an integer range the decoded integers lie
MaxDelta == 2

(***************************************************************************)
(* Bytes and decimal text.                                                 *)
(***************************************************************************)
Digits == <<"0", "1", "2", "3", "4", "5", "6", "7", "8", "9">>

DigitChars == {Digits[i] : i \in 1..10}

is_digit(c) == c \in DigitChars

DigitVal(c) == (CHOOSE i \in 1..10 : Digits[i] = c) - 1

RECURSIVE DecVal(_)
\* the value of a run of decimal digits (str::parse on digits only)
DecVal(s) ==
    IF s = <<>> THEN 0
    ELSE DecVal(SubSeq(s, 1, Len(s) - 1)) * 10 + DigitVal(s[Len(s)])

RECURSIVE DecText(_)
\* the decimal text of a natural number (Display for integers)
DecText(n) ==
    IF n < 10 THEN <<Digits[n + 1]>>
    ELSE DecText(n \div 10) \o <<Digits[(n % 10) + 1]>>

\* i64::to_string / u64::to_string
IntText(n) == IF n < 0 THEN <<"-">> \o DecText(-n) ELSE DecText(n)

\* the printable ASCII characters, '!' (33) to '~' (126), in code order; the
\* double quote, the backslash and the backtick are spelled out and are not
\* bytes of any input of the model
Printable ==
    <<"!", "dquote", "#", "$", "%", "&", "'", "(", ")", "*", "+", ",", "-",
       ".", "/", "0", "1", "2", "3", "4", "5", "6", "7", "8", "9", ":",
       ";", "<", "=", ">", "?", "@", "A", "B", "C", "D", "E", "F", "G",
       "H", "I", "J", "K", "L", "M", "N", "O", "P", "Q", "R", "S", "T",
       "U", "V", "W", "X", "Y", "Z", "[", "bslash", "]", "^", "_", "btick", "a",
       "b", "c", "d", "e", "f", "g", "h", "i", "j", "k", "l", "m", "n",
       "o", "p", "q", "r", "s", "t", "u", "v", "w", "x", "y", "z", "{",
       "|", "}", "~" >>

\* c as u8
Ascii(c) == (CHOOSE i \in 1..Len(Printable) : Printable[i] = c) + 32

AllDigits(s) == \A i \in 1..Len(s) : is_digit(s[i])

\* str::parse::<usize>: an optional '+' and then one digit or more
ParseUsizeOk(s) ==
    LET body == IF s # <<>> /\ s[1] = "+" THEN Tail(s) ELSE s
    IN  body # <<>> /\ AllDigits(body)

ParseUsizeVal(s) == IF s[1] = "+" THEN DecVal(Tail(s)) ELSE DecVal(s)

\* str::parse::<i64>: an optional sign and then one digit or more
ParseI64Ok(s) ==
    LET body == IF s # <<>> /\ s[1] \in {"+", "-"} THEN Tail(s) ELSE s
    IN  body # <<>> /\ AllDigits(body)

ParseI64Val(s) ==
    IF s[1] = "-" THEN 0 - DecVal(Tail(s))
    ELSE IF s[1] = "+" THEN DecVal(Tail(s))
    ELSE DecVal(s)

\* the first position of byte c in s, 0 when there is none (str::find)
Find(s, c) ==
    IF \E i \in 1..Len(s) : s[i] = c
    THEN CHOOSE i \in 1..Len(s) : s[i] = c /\ \A j \in 1..(i - 1) : s[j] # c
    ELSE 0

\* s from position i (1-based) to its end
From(s, i) == SubSeq(s, i, Len(s))

\* does s start with p (str::starts_with)
StartsWith(s, p) == Len(s) >= Len(p) /\ SubSeq(s, 1, Len(p)) = p

(***************************************************************************)
(* str::parse::<f64> on the decimal grammar: sign, digits with at most one *)
(* '.', an optional exponent.  The value is a pair mantissa, power of ten, *)
(* with no trailing zero in the mantissa.  The bytes of the model cannot   *)
(* spell "inf" or "nan".                                                   *)
(***************************************************************************)
FloatSplit(s) ==
    LET unsigned == IF s # <<>> /\ s[1] \in {"+", "-"} THEN Tail(s) ELSE s
        epos == IF Find(unsigned, "e") # 0 THEN Find(unsigned, "e")
                ELSE Find(unsigned, "E")
        mant == IF epos = 0 THEN unsigned ELSE SubSeq(unsigned, 1, epos - 1)
        expo == IF epos = 0 THEN <<>> ELSE From(unsigned, epos + 1)
        dot == Find(mant, ".")
    IN  [neg |-> s # <<>> /\ s[1] = "-",
         hasExp |-> epos # 0,
         whole |-> IF dot = 0 THEN mant ELSE SubSeq(mant, 1, dot - 1),
         frac |-> IF dot = 0 THEN <<>> ELSE From(mant, dot + 1),
         expo |-> expo]

ParseF64Ok(s) ==
    LET p == FloatSplit(s)
    IN  /\ AllDigits(p.whole) /\ AllDigits(p.frac)
        /\ Len(p.whole) + Len(p.frac) > 0
        /\ p.hasExp => ParseI64Ok(p.expo)

RECURSIVE Normal(_, _)
Normal(m, e) ==
    IF m = 0 THEN <<0, 0>>
    ELSE IF m % 10 = 0 THEN Normal(m \div 10, e + 1)
    ELSE <<m, e>>

ParseF64Val(s) ==
    LET p == FloatSplit(s)
        m == DecVal(p.whole \o p.frac)
        e == (IF p.hasExp THEN ParseI64Val(p.expo) ELSE 0) - Len(p.frac)
    IN  Normal(IF p.neg THEN 0 - m ELSE m, e)

(***************************************************************************)
(* TNetString, the untyped value tree.  Every value is a record of the     *)
(* same shape: k the variant, n the Bool (0/1) or Int or Float mantissa,   *)
(* e the Float power of ten, s the Str bytes, kids the List elements and   *)
(* ents the Dict entries, a set of <<key, value>> with unique keys.        *)
(***************************************************************************)
TN(k, n, e, s, kids, ents) ==
    [k |-> k, n |-> n, e |-> e, s |-> s, kids |-> kids, ents |-> ents]

Bool(b) == TN("Bool", IF b THEN 1 ELSE 0, 0, <<>>, <<>>, {})

Str(s) == TN("Str", 0, 0, s, <<>>, {})

TInt(n) == TN("Int", n, 0, <<>>, <<>>, {})

Float(me) == TN("Float", me[1], me[2], <<>>, <<>>, {})

Null == TN("Null", 0, 0, <<>>, <<>>, {})

List(kids) == TN("List", 0, 0, <<>>, kids, {})

Dict(ents) == TN("Dict", 0, 0, <<>>, <<>>, ents)

\* HashMap::insert: the new value replaces an entry with the same key
Insert(ents, key, value) ==
    {p \in ents : p[1] # key} \cup {<<key, value>>}

(***************************************************************************)
(* Outcomes.  st is "Ok", "Err" (err names the TNetStringError or Error    *)
(* variant) or "Panic" (the thread panics, no Result is returned).         *)
(***************************************************************************)
NoBytes == <<>>

Ok(remain, val) == [st |-> "Ok", err |-> "", remain |-> remain, val |-> val]

Err(e) == [st |-> "Err", err |-> e, remain |-> NoBytes, val |-> Null]

Panic == [st |-> "Panic", err |-> "index out of range", remain |-> NoBytes, val |-> Null]

\* the outcome of parse_tag: the bytes after the colon and the length
TagOk(rest, num) ==
    [st |-> "Ok", err |-> "", rest |-> rest, num |-> num]

TagFail(st, e) == [st |-> st, err |-> e, rest |-> NoBytes, num |-> 0]

\* the outcome of take and split_data: the bytes left and the bytes taken
TakeOk(rest, taken) ==
    [st |-> "Ok", err |-> "", rest |-> rest, taken |-> taken]

TakeFail(st, e) == [st |-> st, err |-> e, rest |-> NoBytes, taken |-> NoBytes]

(***************************************************************************)
(* The untyped parser, src/src/lib.rs.                                     *)
(***************************************************************************)
\* the length of the run of digits data starts with (the while loop)
DigitRun(d) ==
    IF \E i \in 1..Len(d) : ~is_digit(d[i])
    THEN (CHOOSE i \in 1..Len(d) :
              ~is_digit(d[i]) /\ \A j \in 1..(i - 1) : is_digit(d[j])) - 1
    ELSE Len(d)

parse_tag(d) ==
    LET index == DigitRun(d)
        temp_str == SubSeq(d, 1, index)
    IN  IF ~ParseUsizeOk(temp_str) THEN TagFail("Err", "UnableToParseInt")
        \* index += 1; &data[index..] panics when index > data.len()
        ELSE IF index + 1 > Len(d) THEN TagFail("Panic", "index out of range")
        ELSE TagOk(From(d, index + 2), DecVal(temp_str))

\* take with its bound check off by one
take_strict(d, n) ==
    IF n < Len(d) THEN TakeOk(From(d, n + 1), SubSeq(d, 1, n))
    ELSE TakeFail("Err", "UnableToTake")

take(d, n) ==
    IF n <= Len(d) THEN TakeOk(From(d, n + 1), SubSeq(d, 1, n))
    ELSE TakeFail("Err", "UnableToTake")

split_data(d) ==
    LET t == parse_tag(d)
    IN  IF t.st # "Ok" THEN TakeFail(t.st, t.err) ELSE take(t.rest, t.num)

\* parse with the '!' arm reading the payload: true only for "true"
parse_bool_by_content(d) ==
    LET sd == split_data(d)
    IN  IF sd.st # "Ok" \/ sd.rest = <<>> THEN Err("UnableToTake")
        ELSE Ok(Tail(sd.rest), Bool(sd.taken = <<"t", "r", "u", "e">>))

\* parse with the '~' arm accepting every payload
parse_null_any_length(d) ==
    LET sd == split_data(d)
    IN  IF sd.st # "Ok" \/ sd.rest = <<>> THEN Err("UnableToTake")
        ELSE IF sd.rest[1] = "~" THEN Ok(Tail(sd.rest), Null)
        ELSE Err("UnknownSegmentType")

\* the arms of the match in parse that make no further call
parse_scalar(type_tag, content, remain) ==
    CASE type_tag = "!" -> Ok(remain, Bool(Len(content) = 4))
      [] type_tag = "," -> Ok(remain, Str(content))
      [] type_tag = "#" ->
           IF ParseI64Ok(content) THEN Ok(remain, TInt(ParseI64Val(content)))
           ELSE Err("UnableToParseInt")
      [] type_tag = "^" ->
           IF ParseF64Ok(content) THEN Ok(remain, Float(ParseF64Val(content)))
           ELSE Err("UnableToParseFloat")
      [] type_tag = "~" ->
           IF content # <<>> THEN Err("NoneZeroLengthNull")
           ELSE Ok(remain, Null)
      [] OTHER -> Err("UnknownSegmentType")

RECURSIVE parse(_)
RECURSIVE parse_list_loop(_, _)
RECURSIVE parse_dict_loop(_, _)

parse_pair(d) ==
    LET k == parse(d)
        v == parse(k.remain)
    IN  IF k.st # "Ok" THEN k
        ELSE IF v.st # "Ok" THEN v
        ELSE IF k.val.k = "Str" THEN Ok(v.remain, <<k.val.s, v.val>>)
        ELSE Err("FoundNonStringKey")

\* the loop of the ']' arm; its return value carries remain_content
parse_list_loop(remain_content, list_content) ==
    IF remain_content = <<>> THEN Ok(remain_content, List(list_content))
    ELSE LET r == parse(remain_content)
         IN  IF r.st = "Ok"
             THEN parse_list_loop(r.remain, Append(list_content, r.val))
             ELSE r

\* the loop of the '}' arm
parse_dict_loop(remain_content, dict) ==
    IF remain_content = <<>> THEN Ok(remain_content, Dict(dict))
    ELSE LET r == parse_pair(remain_content)
         IN  IF r.st = "Ok"
             THEN parse_dict_loop(r.remain, Insert(dict, r.val[1], r.val[2]))
             ELSE [st |-> r.st, err |-> r.err, remain |-> NoBytes, val |-> Null]

parse(d) ==
    LET sd == split_data(d)
        content == sd.taken
        tk == take(sd.rest, 1)
        remain == tk.rest
        type_tag == tk.taken[1]
    IN  IF sd.st # "Ok" THEN [st |-> sd.st, err |-> sd.err, remain |-> NoBytes, val |-> Null]
        ELSE IF tk.st # "Ok" THEN Err(tk.err)
        ELSE CASE type_tag = "]" -> parse_list_loop(content, <<>>)
               [] type_tag = "}" -> parse_dict_loop(content, {})
               [] OTHER -> parse_scalar(type_tag, content, remain)

(***************************************************************************)
(* The wire grammar, frame = length ":" payload tag, and the inputs of the *)
(* untyped parser: well-formed frames built together with the value they   *)
(* denote, then the same frames followed by further bytes, cut short, or   *)
(* with bytes in a list or dict payload that belong to no child frame.     *)
(***************************************************************************)
Frame(payload, tag) == DecText(Len(payload)) \o <<":">> \o payload \o <<tag>>

Case(bytes, val) == [bytes |-> bytes, val |-> val]

StrCases ==
    { Case(Frame(<<"a">>, ","), Str(<<"a">>)),
      Case(Frame(<<"b">>, ","), Str(<<"b">>)) }

ScalarCases ==
    StrCases \cup
    { Case(Frame(<<>>, "~"), Null),
      Case(Frame(<<"t", "r", "u", "e">>, "!"), Bool(TRUE)),
      Case(Frame(<<"7">>, "#"), TInt(7)) }

RECURSIVE KidSeqs(_, _, _)
\* the sequences of at most n cases of S whose bytes total at most budget
KidSeqs(S, n, budget) ==
    IF n = 0 THEN {<<>>}
    ELSE {<<>>} \cup
         UNION { { <<c>> \o r : r \in KidSeqs(S, n - 1, budget - Len(c.bytes)) }
                 : c \in {x \in S : Len(x.bytes) <= budget} }

RECURSIVE PairSeqs(_, _, _)
\* the same for pairs, a key of StrCases and then a value of S
PairSeqs(S, n, budget) ==
    IF n = 0 THEN {<<>>}
    ELSE {<<>>} \cup
         UNION { { <<p>> \o r :
                     r \in PairSeqs(S, n - 1, budget - Len(p[1].bytes) - Len(p[2].bytes)) }
                 : p \in {x \in StrCases \X S :
                             Len(x[1].bytes) + Len(x[2].bytes) <= budget} }

RECURSIVE KidBytes(_)
KidBytes(ks) == IF ks = <<>> THEN <<>> ELSE ks[1].bytes \o KidBytes(Tail(ks))

RECURSIVE PairBytes(_)
PairBytes(ps) ==
    IF ps = <<>> THEN <<>>
    ELSE ps[1][1].bytes \o ps[1][2].bytes \o PairBytes(Tail(ps))

RECURSIVE PairEnts(_, _)
\* the entries of a dict whose pairs are ps, a later pair replacing an earlier
PairEnts(ps, acc) ==
    IF ps = <<>> THEN acc
    ELSE PairEnts(Tail(ps), Insert(acc, ps[1][1].val.s, ps[1][2].val))

ListCase(ks) ==
    Case(Frame(KidBytes(ks), "]"), List([i \in 1..Len(ks) |-> ks[i].val]))

DictCase(ps) == Case(Frame(PairBytes(ps), "}"), Dict(PairEnts(ps, {})))

RECURSIVE Cases(_)
\* the well-formed frames of nesting depth at most d
Cases(d) ==
    IF d = 0 THEN ScalarCases
    ELSE LET S == Cases(d - 1)
         IN  { c \in S \cup { ListCase(ks) : ks \in KidSeqs(S, MaxKids, MaxFrameLen) }
                       \cup { DictCase(ps) : ps \in PairSeqs(S, MaxKids, MaxFrameLen) }
                 : Len(c.bytes) <= MaxFrameLen }

AllCases == Cases(MaxDepth)

\* what may follow the first frame of an input
Extras == { <<>>, <<"z">>, Frame(<<>>, "~"), Frame(<<"b", "a", "r">>, ",") }

\* bytes of a payload that are part of no complete child frame
Junk == { <<"z">>, <<"1", ":", "a">>, <<"3", ":", "a", ",">> }

RawBytes == {"0", "5", ":", "a", "]", "~"}

RawInputs == UNION { [1..n -> RawBytes] : n \in 0..MaxRawLen }

\* well-formed frames that are not strings, as the first sub-frame of a dict
NonStrKeys ==
    { Case(Frame(<<>>, "~"), Null),
      Case(Frame(<<"t", "r", "u", "e">>, "!"), Bool(TRUE)),
      Case(Frame(<<"7">>, "#"), TInt(7)),
      Case(Frame(<<"1", ".", "5">>, "^"), Float(<<15, 0 - 1>>)),
      ListCase(<<>>),
      ListCase(<<Case(Frame(<<"a">>, ","), Str(<<"a">>))>>),
      DictCase(<<>>) }

\* what follows the key frame in the dict's payload
KeyRests == { <<>>, <<"z">>, Frame(<<>>, "~"), Frame(<<"a">>, ",") }

\* payloads of '!' frames, of 0 to 5 bytes
BoolPayloads ==
    { <<>>, <<"a">>, <<"0", "1">>, <<"a", "b", "c">>,
      <<"t", "r", "u", "e">>, <<"x", "y", "z", "%">>, <<"1", ":", "a", ",">>,
      <<"f", "a", "l", "s", "e">>, <<"a", "a", "a", "a", "a">> }

\* payloads of '~' frames
NullPayloads == { <<>>, <<"a">>, <<"0", ":">>, <<"a", "b">> }

\* inputs whose byte after a zero-length payload is not a tag
NullMistagged == { <<"0", ":", "1", "~">>, <<"0", ":", "a", "~">> }

\* frames whose colon is replaced by another byte
MissingColon ==
    { <<"4", "x", "t", "r", "u", "e", "!">>, <<"1", "x", "a", ",">>,
      <<"0", "x", "~">>, <<"1", ",", "7", "#">>, <<"0", "]", "]">> }

\* complete frames whose parse fails, each with the error of its parse
FailingFrames ==
    { [bytes |-> Frame(<<"a">>, "~"), err |-> "NoneZeroLengthNull"],
      [bytes |-> Frame(<<"a">>, "#"), err |-> "UnableToParseInt"],
      [bytes |-> Frame(<<"a">>, "^"), err |-> "UnableToParseFloat"],
      [bytes |-> Frame(<<>>, "z"), err |-> "UnknownSegmentType"] }

\* what follows the failing child in the payload
AfterFailing ==
    { <<>>, Frame(<<"b">>, ","), Frame(<<"a">>, ",") \o Frame(<<"7">>, "#") }
    \cup { f.bytes : f \in FailingFrames }

Scenario(kind, bytes, frame, val, extra) ==
    [kind |-> kind, bytes |-> bytes, frame |-> frame, val |-> val, extra |-> extra]

ParseScenarios ==
    { Scenario("frame", c.bytes \o x, c.bytes, c.val, x) : c \in AllCases, x \in Extras }
    \cup
    UNION { { Scenario("cut", SubSeq(c.bytes, 1, n), c.bytes, c.val, <<>>)
                : n \in 0..(Len(c.bytes) - 1) } : c \in AllCases }
    \cup
    { Scenario("junk", Frame(KidBytes(ks) \o j, "]"), Frame(KidBytes(ks) \o j, "]"),
               Null, <<>>)
        : ks \in KidSeqs(Cases(MaxDepth - 1), MaxKids, MaxFrameLen - 6), j \in Junk }
    \cup
    { Scenario("junk", Frame(PairBytes(ps) \o j, "}"), Frame(PairBytes(ps) \o j, "}"),
               Null, <<>>)
        : ps \in PairSeqs(Cases(MaxDepth - 1), MaxKids, MaxFrameLen - 6), j \in Junk }
    \cup
    { Scenario("raw", r, <<>>, Null, <<>>) : r \in RawInputs }
    \cup
    { Scenario("badkey", Frame(k.bytes \o r, "}"), k.bytes, k.val, r)
        : k \in NonStrKeys, r \in KeyRests }
    \cup
    { Scenario("bool", Frame(b, "!") \o x, Frame(b, "!"), Null, x)
        : b \in BoolPayloads, x \in Extras }
    \cup
    { Scenario("null", Frame(b, "~") \o x, Frame(b, "~"), Null, x)
        : b \in NullPayloads, x \in Extras }
    \cup
    { Scenario("null", b, b, Null, <<>>) : b \in NullMistagged }
    \cup
    { Scenario("nocolon", b, b, Null, <<>>) : b \in MissingColon }
    \cup
    { Scenario("failchild", Frame(KidBytes(ks) \o f.bytes \o x, "]"), f.bytes, Null, x)
        : ks \in KidSeqs(Cases(MaxDepth - 1), MaxKids, MaxFrameLen - 8),
          f \in FailingFrames, x \in AfterFailing }
    \cup
    { Scenario("failchild",
               Frame(PairBytes(ps) \o Frame(<<"k">>, ",") \o f.bytes \o x, "}"),
               f.bytes, Null, x)
        : ps \in PairSeqs(Cases(MaxDepth - 1), MaxKids, MaxFrameLen - 8),
          f \in FailingFrames, x \in AfterFailing }
    \cup
    { Scenario("failchild", Frame(PairBytes(ps) \o f.bytes \o x, "}"), f.bytes, Null, x)
        : ps \in PairSeqs(Cases(MaxDepth - 1), MaxKids, MaxFrameLen - 8),
          f \in FailingFrames, x \in AfterFailing }

(***************************************************************************)
(* The untyped parser as a state machine: an input is drawn, and one of    *)
(* parse_tag, split_data and parse is applied to it.                       *)
(***************************************************************************)
NoResult == [st |-> "None"]

NoOutput == <<>>

InitParse ==
    /\ ghost \in ParseScenarios
    /\ data = ghost.bytes
    /\ pc = "ready"
    /\ res = NoResult
    /\ output = NoOutput
    /\ profile = "debug"

ParseTag ==
    /\ pc = "ready"
    /\ res' = parse_tag(data)
    /\ pc' = "parse_tag"
    /\ UNCHANGED <<data, ghost, output, profile>>

SplitData ==
    /\ pc = "ready"
    /\ res' = split_data(data)
    /\ pc' = "split_data"
    /\ UNCHANGED <<data, ghost, output, profile>>

Parse ==
    /\ pc = "ready"
    /\ res' = parse(data)
    /\ pc' = "parse"
    /\ UNCHANGED <<data, ghost, output, profile>>

NextParse == ParseTag \/ SplitData \/ Parse

SpecParse == InitParse /\ [][NextParse]_vars

(***************************************************************************)
(* Claims about the untyped parser (checked under SpecParse).              *)
(***************************************************************************)
\* the input starts with a run of digits and a colon
HasPrefix(d) == DigitRun(d) >= 1 /\ DigitRun(d) < Len(d) /\ d[DigitRun(d) + 1] = ":"

\* the decoded length prefix, and the bytes that follow the colon
PrefixLen(d) == DecVal(SubSeq(d, 1, DigitRun(d)))

AfterColon(d) == From(d, DigitRun(d) + 2)

TNetStringErrors ==
    { "UnknownSegmentType", "UnableToParseInt", "UnableToParseFloat",
      "NoneZeroLengthNull", "UnableToTake", "FoundNonStringKey" }

\* C2: whenever parse accepts, the remaining bytes are the input's suffix
\* that starts right after the type tag of the first frame, lists and dicts
\* included.
C2_RemainIsSuffix ==
    (pc = "parse" /\ res.st = "Ok")
        => res.remain = From(AfterColon(data), PrefixLen(data) + 2)

\* C3: a list (dict) frame whose payload is the concatenation of k
\* well-formed child frames (pairs) parses to the List (Dict) of the k
\* children's values, in order, whatever the kind of each child.
C3_ChildrenInOrder ==
    (pc = "parse" /\ ghost.kind = "frame" /\ ghost.val.k \in {"List", "Dict"})
        => (res.st = "Ok" /\ res.val = ghost.val)

\* C4: a list or dict frame whose payload holds bytes that are part of no
\* complete child frame is never accepted.
C4_PayloadFullyConsumed ==
    (pc = "parse" /\ ghost.kind = "junk") => res.st # "Ok"

\* C5: for every input, parse returns Ok or one of the TNetStringError
\* kinds; it never panics.
C5_NeverPanics ==
    pc = "parse"
        => (res.st = "Ok" \/ (res.st = "Err" /\ res.err \in TNetStringErrors))

\* C8: when the input starts with a decimal length N and a colon, the
\* payload is exactly the N bytes after the colon and the tag is the byte
\* after the payload; with fewer than N+1 bytes after the colon parse
\* returns Err(UnableToTake).
C8_FrameLengthExact ==
    HasPrefix(data) =>
        LET N == PrefixLen(data)
            after == AfterColon(data)
        IN  /\ pc = "split_data" =>
                IF Len(after) >= N
                THEN /\ res.st = "Ok"
                     /\ res.taken = SubSeq(after, 1, N)
                     /\ res.rest = From(after, N + 1)
                ELSE res.st = "Err" /\ res.err = "UnableToTake"
            /\ (pc = "parse" /\ Len(after) < N + 1) =>
                (res.st = "Err" /\ res.err = "UnableToTake")
            /\ (pc = "parse" /\ res.st = "Ok") =>
                /\ Len(after) >= N + 1
                /\ after[N + 1] = "," => res.val = Str(SubSeq(after, 1, N))
                /\ after[N + 1] = "!" => res.val = Bool(N = 4)
                /\ after[N + 1] = "~" => N = 0

\* C8 witness: a frame with a non-empty payload that is one byte short (its
\* tag is missing) has been rejected with UnableToTake.
C8_Witness ==
    /\ pc = "parse"
    /\ ghost.kind = "cut"
    /\ Len(data) = Len(ghost.frame) - 1
    /\ HasPrefix(data)
    /\ PrefixLen(data) > 0
    /\ Len(AfterColon(data)) = PrefixLen(data)
    /\ res.st = "Err" /\ res.err = "UnableToTake"

(***************************************************************************)
(* The typed adapter's data model.  A type is a record: k its kind, of the *)
(* types it is made of, fields the field names of a struct, variants the   *)
(* variants of an enum.  A value is a record: k its kind, n the bool (0/1) *)
(* or integer or variant index, s the string, kids the elements, fields or *)
(* entries in order.  The visitors of Vec, tuples, structs, maps, Option   *)
(* and enums are serde's (its impls and derive), driven as serde drives    *)
(* them.  A map is a BTreeMap<String, V>: its entries are kept and         *)
(* serialized in key order.                                                *)
(***************************************************************************)
Ty(k, of, fields, variants) ==
    [k |-> k, of |-> of, fields |-> fields, variants |-> variants]

Scalar(k) == Ty(k, <<>>, <<>>, <<>>)

OptionOf(t) == Ty("option", <<t>>, <<>>, <<>>)

VecOf(t) == Ty("seq", <<t>>, <<>>, <<>>)

TupleOf(ts) == Ty("tuple", ts, <<>>, <<>>)

StructOf(fields, ts) == Ty("struct", ts, fields, <<>>)

MapOf(t) == Ty("map", <<t>>, <<>>, <<>>)

\* a variant: its name, its form (unit, newtype, tuple, struct), its payload
Variant(name, form, fields, ts) ==
    [name |-> name, form |-> form, fields |-> fields, of |-> ts]

EnumOf(variants) == Ty("enum", <<>>, <<>>, variants)

V(k, n, s, kids) == [k |-> k, n |-> n, s |-> s, kids |-> kids]

VBool(b) == V("bool", IF b THEN 1 ELSE 0, <<>>, <<>>)

VInt(n) == V("int", n, <<>>, <<>>)

VStr(s) == V("str", 0, s, <<>>)

VUnit == V("unit", 0, <<>>, <<>>)

VNone == V("none", 0, <<>>, <<>>)

VSome(v) == V("some", 0, <<>>, <<v>>)

VSeq(kids) == V("seq", 0, <<>>, kids)

VStruct(kids) == V("struct", 0, <<>>, kids)

\* a map entry and a map (entries in key order)
VEntry(key, v) == V("entry", 0, key, <<v>>)

VMap(entries) == V("map", 0, <<>>, entries)

\* the i-th variant of an enum with its payload
VVariant(i, kids) == V("variant", i, <<>>, kids)

U32 == Scalar("u32")

I32 == Scalar("i32")

String == Scalar("str")

SignedKinds == {"i8", "i16", "i32", "i64"}

UnsignedKinds == {"u8", "u16", "u32", "u64"}

(***************************************************************************)
(* The serializer, src/src/ser.rs.  The staging stack `output` is a        *)
(* sequence of byte strings whose last element is the top.                 *)
(***************************************************************************)
\* format!("{}:{}<tag>", content.len(), content)
format(content, tag) == DecText(Len(content)) \o <<":">> \o content \o <<tag>>

add_to_output(out, v) ==
    IF out = <<>> THEN out
    ELSE [out EXCEPT ![Len(out)] = out[Len(out)] \o v]

add_string_to_stack(out) == Append(out, <<>>)

\* Vec::pop: the popped string (none on an empty stack) and the stack left
pop_string(out) ==
    IF out = <<>> THEN [some |-> FALSE, string |-> <<>>, out |-> out]
    ELSE [some |-> TRUE, string |-> out[Len(out)], out |-> SubSeq(out, 1, Len(out) - 1)]

\* if let Some(val) = self.output.last_mut() { *val = format!("{}:{}}}", ..) }
wrap_last(out) ==
    IF out = <<>> THEN out
    ELSE [out EXCEPT ![Len(out)] = format(out[Len(out)], "}")]

serialize_bool(out, v) ==
    add_to_output(out, IF v THEN <<"4", ":", "t", "r", "u", "e", "!">>
                       ELSE <<"5", ":", "f", "a", "l", "s", "e", "!">>)

serialize_i64(out, v) == add_to_output(out, format(IntText(v), "#"))

serialize_u64(out, v) == add_to_output(out, format(IntText(v), "#"))

serialize_str(out, v) == add_to_output(out, format(v, ","))

serialize_unit(out) == add_to_output(out, <<"0", ":", "~">>)

serialize_none(out) == serialize_unit(out)

serialize_unit_variant(out, variant) == serialize_str(out, variant)

serialize_seq(out) == add_string_to_stack(out)

serialize_tuple(out) == serialize_seq(out)

serialize_map(out) == add_string_to_stack(out)

serialize_struct(out) == serialize_map(out)

serialize_tuple_variant(out, variant) ==
    add_string_to_stack(serialize_str(out, variant))

serialize_struct_variant(out, variant) == serialize_str(out, variant)

\* SerializeSeq::end, SerializeTuple::end, SerializeTupleStruct::end
SerializeSeq_end(out) ==
    LET p == pop_string(out)
    IN  IF p.some THEN add_to_output(p.out, format(p.string, "]")) ELSE out

\* a map's end that closes the frame with the list tag
SerializeMap_end_list_tag(out) == SerializeSeq_end(out)

\* SerializeMap::end, SerializeStruct::end
SerializeMap_end(out) ==
    LET p == pop_string(out)
    IN  IF p.some THEN add_to_output(p.out, format(p.string, "}")) ELSE out

SerializeTupleVariant_end(out) == wrap_last(SerializeSeq_end(out))

SerializeStructVariant_end(out) == wrap_last(SerializeMap_end(out))

RECURSIVE Serialize(_, _, _)
RECURSIVE SerializeEach(_, _, _)
RECURSIVE SerializeFields(_, _, _, _)
RECURSIVE SerializeEntries(_, _, _)
RECURSIVE SerializeVariantFields(_, _, _, _)

\* SerializeSeq/Tuple/TupleVariant::serialize_element or serialize_field,
\* once per element: value.serialize(&mut **self)
SerializeEach(ts, vs, out) ==
    IF vs = <<>> THEN out
    ELSE SerializeEach(Tail(ts), Tail(vs), Serialize(ts[1], vs[1], out))

\* SerializeStruct::serialize_field, once per field: the key, then the value
SerializeFields(names, ts, vs, out) ==
    IF vs = <<>> THEN out
    ELSE SerializeFields(Tail(names), Tail(ts), Tail(vs),
                         Serialize(ts[1], vs[1], serialize_str(out, names[1])))

\* SerializeMap::serialize_key and serialize_value, once per entry
SerializeEntries(t, entries, out) ==
    IF entries = <<>> THEN out
    ELSE SerializeEntries(t, Tail(entries),
                          Serialize(t, entries[1].kids[1],
                                    serialize_str(out, entries[1].s)))

\* SerializeStructVariant::serialize_field, once per field: a push, the key,
\* then the value
SerializeVariantFields(names, ts, vs, out) ==
    IF vs = <<>> THEN out
    ELSE SerializeVariantFields(Tail(names), Tail(ts), Tail(vs),
             Serialize(ts[1], vs[1],
                       serialize_str(add_string_to_stack(out), names[1])))

\* serialize_newtype_variant: the name, the value, then the top buffer wrapped
serialize_newtype_variant(out, variant, t, value) ==
    wrap_last(Serialize(t, value, serialize_str(out, variant)))

\* value.serialize(&mut serializer): the Serialize impl of the value's type
\* calls the serializer's methods
Serialize(t, v, out) ==
    CASE t.k = "bool" -> serialize_bool(out, v.n = 1)
      [] t.k \in SignedKinds -> serialize_i64(out, v.n)
      [] t.k \in UnsignedKinds -> serialize_u64(out, v.n)
      [] t.k = "str" -> serialize_str(out, v.s)
      [] t.k = "unit" -> serialize_unit(out)
      [] t.k = "option" ->
            IF v.k = "none" THEN serialize_none(out)
            ELSE Serialize(t.of[1], v.kids[1], out)
      [] t.k = "seq" ->
            SerializeSeq_end(
                SerializeEach([i \in 1..Len(v.kids) |-> t.of[1]], v.kids,
                              serialize_seq(out)))
      [] t.k = "tuple" ->
            SerializeSeq_end(SerializeEach(t.of, v.kids, serialize_tuple(out)))
      [] t.k = "struct" ->
            SerializeMap_end(
                SerializeFields(t.fields, t.of, v.kids, serialize_struct(out)))
      [] t.k = "map" ->
            SerializeMap_end(SerializeEntries(t.of[1], v.kids, serialize_map(out)))
      [] t.k = "enum" ->
            LET var == t.variants[v.n]
            IN  CASE var.form = "unit" -> serialize_unit_variant(out, var.name)
                  [] var.form = "newtype" ->
                        serialize_newtype_variant(out, var.name, var.of[1], v.kids[1])
                  [] var.form = "tuple" ->
                        SerializeTupleVariant_end(
                            SerializeEach(var.of, v.kids,
                                          serialize_tuple_variant(out, var.name)))
                  [] var.form = "struct" ->
                        SerializeStructVariant_end(
                            SerializeVariantFields(var.fields, var.of, v.kids,
                                serialize_struct_variant(out, var.name)))

\* the result of to_string: Ok(text) or Err
TextOk(text) == [st |-> "Ok", err |-> "", text |-> text]

TextErr(e) == [st |-> "Err", err |-> e, text |-> NoBytes]

\* the stack to_string starts with: vec![String::new()]
NewSerializer == << <<>> >>

to_string(t, v) ==
    LET out == Serialize(t, v, NewSerializer)
    IN  IF out = <<>> THEN TextErr("StackProblem") ELSE TextOk(out[Len(out)])

(***************************************************************************)
(* parse_type of crate::parse, which the deserializer calls to learn the   *)
(* kind of the frame at the cursor.  Its source is not part of src/; it is *)
(* written from the framing primitive of the specification: a maximal run  *)
(* of digits terminated by ':', N payload bytes, one tag byte.             *)
(***************************************************************************)
TypeOk(ty) == [st |-> "Ok", err |-> "", ty |-> ty]

TypeErr(e) == [st |-> "Err", err |-> e, ty |-> "None"]

parse_type(d) ==
    LET run == DigitRun(d)
        N == DecVal(SubSeq(d, 1, run))
        after == From(d, run + 2)
        tag == after[N + 1]
    IN  IF run = 0 \/ run >= Len(d) \/ d[run + 1] # ":"
        THEN TypeErr("UnableToParseInt")
        ELSE IF Len(after) < N + 1 THEN TypeErr("UnableToTake")
        ELSE CASE tag = "!" -> TypeOk("Bool")
               [] tag = "," -> TypeOk("Str")
               [] tag = "#" -> TypeOk("Int")
               [] tag = "^" -> TypeOk("Float")
               [] tag = "~" -> TypeOk("Null")
               [] tag = "]" -> TypeOk("List")
               [] tag = "}" -> TypeOk("Dict")
               [] OTHER -> TypeErr("UnknownSegmentType")

(***************************************************************************)
(* The deserializer, src/src/de.rs.  Its state is the cursor `input`; an   *)
(* operation returns its outcome with the cursor it leaves.                *)
(***************************************************************************)
DeOk(input, val) == [st |-> "Ok", err |-> "", input |-> input, val |-> val]

\* Err(e), returned with the cursor at input
DeErr(e, input) == [st |-> "Err", err |-> e, input |-> input, val |-> VUnit]

DePanic == [st |-> "Panic", err |-> "panic", input |-> NoBytes, val |-> VUnit]

\* an outcome that is not Ok, passed on unchanged (the ? operator)
Fail(r) == [st |-> r.st, err |-> r.err, input |-> r.input, val |-> VUnit]

True7 == <<"4", ":", "t", "r", "u", "e", "!">>

False8 == <<"5", ":", "f", "a", "l", "s", "e", "!">>

Nil3 == <<"0", ":", "~">>

\* parse_bool deciding by the payload's length, as the untyped parser does
parse_bool_by_length(input) ==
    IF Len(input) >= 7 /\ input[1] = "4" /\ input[2] = ":" /\ input[7] = "!"
    THEN DeOk(From(input, 8), VBool(TRUE))
    ELSE IF Len(input) >= 8 /\ input[1] = "5" /\ input[2] = ":" /\ input[8] = "!"
    THEN DeOk(From(input, 9), VBool(FALSE))
    ELSE DeErr("ParsingBool", input)

parse_bool(input) ==
    IF StartsWith(input, True7) THEN DeOk(From(input, Len(True7) + 1), VBool(TRUE))
    ELSE IF StartsWith(input, False8)
         THEN DeOk(From(input, Len(False8) + 1), VBool(FALSE))
    ELSE DeErr("ParsingBool", input)

\* self.input.chars().last().ok_or(Error::Eof)
last_char(input) ==
    IF input = <<>> THEN [st |-> "Err", err |-> "Eof", ch |-> "None"]
    ELSE [st |-> "Ok", err |-> "", ch |-> input[Len(input)]]

RECURSIVE AccUnsigned(_, _)
\* the digit loop of parse_unsigned: int *= 10; int += T::from(c as u8 - b'0').
\* The u8 subtraction overflows for a character below '0': a panic in a
\* debug build, a wrap modulo 256 in a release build.
AccUnsigned(cs, int) ==
    IF cs = <<>> THEN [st |-> "Ok", n |-> int]
    ELSE LET d == Ascii(cs[1]) - 48
         IN  IF d < 0 /\ profile = "debug" THEN [st |-> "Panic", n |-> 0]
             ELSE AccUnsigned(Tail(cs), int * 10 + (d % 256))

RECURSIVE AccSigned(_, _, _)
\* the digit loop of parse_signed: num *= 10; num -= or += (c as i8 - 48)
AccSigned(cs, num, is_negated) ==
    IF cs = <<>> THEN num
    ELSE LET adder == Ascii(cs[1]) - 48
         IN  AccSigned(Tail(cs),
                       IF is_negated THEN num * 10 - adder ELSE num * 10 + adder,
                       is_negated)

parse_unsigned(input) ==
    LET p == Find(input, ":")
        prefix == SubSeq(input, 1, p - 1)
        val_len == ParseUsizeVal(prefix)
        acc == AccUnsigned(SubSeq(input, p + 1, p + val_len), 0)
    IN  IF p = 0 THEN DeErr("ParsingUnsigned", input)
        ELSE IF ~ParseUsizeOk(prefix) THEN DeErr("ParsingUnsigned", input)
        \* &self.input[start_pos..start_pos + val_len]
        ELSE IF p + val_len > Len(input) THEN DePanic
        ELSE IF acc.st = "Panic" THEN DePanic
        \* &self.input[start_pos + val_len + 1..]
        ELSE IF p + val_len + 1 > Len(input) THEN DePanic
        ELSE DeOk(From(input, p + val_len + 2), VInt(acc.n))

parse_signed(input) ==
    LET p == Find(input, ":")
        prefix == SubSeq(input, 1, p - 1)
        val_len == ParseUsizeVal(prefix)
        cs == SubSeq(input, p + 1, p + val_len)
        is_negated == cs # <<>> /\ cs[1] = "-"
        num == AccSigned(IF is_negated THEN Tail(cs) ELSE cs, 0, is_negated)
    IN  IF p = 0 THEN DeErr("ParsingString", input)
        ELSE IF ~ParseUsizeOk(prefix) THEN DeErr("ParsingUnsigned", input)
        ELSE IF p + val_len > Len(input) THEN DePanic
        ELSE IF p + val_len + 1 > Len(input) THEN DePanic
        ELSE DeOk(From(input, p + val_len + 2), VInt(num))

parse_string(input) ==
    LET ty == parse_type(input)
        p == Find(input, ":")
        prefix == SubSeq(input, 1, p - 1)
        end_pos == ParseUsizeVal(prefix) + p
    IN  IF ~(ty.st = "Ok" /\ ty.ty = "Str") THEN DeErr("ParsingString", input)
        ELSE IF p = 0 THEN DeErr("ParsingString", input)
        ELSE IF ~ParseUsizeOk(prefix) THEN DeErr("ParsingUnsigned", input)
        ELSE IF end_pos + 1 > Len(input) THEN DePanic
        ELSE DeOk(From(input, end_pos + 2), VStr(SubSeq(input, p + 1, end_pos)))

(***************************************************************************)
(* serde's side of the deserializer: which visit_* call the visitor of a   *)
(* type accepts.  A visitor that does not accept a call answers with a     *)
(* custom error, Error::Message.  "ignored" is serde's IgnoredAny, the     *)
(* type a derived struct gives to the value of an unknown key.             *)
(***************************************************************************)
Ignored == Scalar("ignored")

\* the range check of the integer visitors' visit_i64
InRange(k, n) ==
    CASE k = "i8" -> n >= 0 - 128 /\ n <= 127
      [] k = "i16" -> n >= 0 - 32768 /\ n <= 32767
      [] k = "u8" -> n >= 0 /\ n <= 255
      [] k = "u16" -> n >= 0 /\ n <= 65535
      [] k \in {"u32", "u64"} -> n >= 0
      [] OTHER -> TRUE

\* visitor.visit_<event>(r.val) for the visitor of type t
Visit(t, event, r) ==
    IF r.st # "Ok" THEN Fail(r)
    ELSE IF t.k = "ignored" THEN DeOk(r.input, VUnit)
    ELSE IF \/ event = "bool" /\ t.k = "bool"
            \/ event = "str" /\ t.k = "str"
            \/ event = "unit" /\ t.k = "unit"
            \/ event = "u64" /\ t.k \in UnsignedKinds
            \/ event = "i64" /\ t.k \in SignedKinds \cup UnsignedKinds
                             /\ InRange(t.k, r.val.n)
         THEN r
    ELSE DeErr("Message", r.input)

\* the position of name among names, 0 when it is not one of them
IndexOf(names, name) ==
    IF \E i \in 1..Len(names) : names[i] = name
    THEN CHOOSE i \in 1..Len(names) : names[i] = name
    ELSE 0

RECURSIVE KeyLess(_, _)
\* the order of String keys in a BTreeMap: bytewise lexicographic
KeyLess(a, b) ==
    IF b = <<>> THEN FALSE
    ELSE IF a = <<>> THEN TRUE
    ELSE IF a[1] # b[1] THEN Ascii(a[1]) < Ascii(b[1])
    ELSE KeyLess(Tail(a), Tail(b))

\* BTreeMap::insert on the entries in key order
PutEntry(entries, key, v) ==
    LET below == SelectSeq(entries, LAMBDA e : KeyLess(e.s, key))
        above == SelectSeq(entries, LAMBDA e : KeyLess(key, e.s))
    IN  below \o <<VEntry(key, v)>> \o above

deserialize_unit(t, input) ==
    IF StartsWith(input, Nil3)
    THEN Visit(t, "unit", DeOk(From(input, Len(Nil3) + 1), VUnit))
    ELSE DeErr("ParsingUnit", input)

deserialize_bool(t, input) == Visit(t, "bool", parse_bool(input))

deserialize_i64(t, input) == Visit(t, "i64", parse_signed(input))

deserialize_u32(t, input) == Visit(t, "u64", parse_unsigned(input))

deserialize_u64(t, input) == Visit(t, "u64", parse_unsigned(input))

\* a float request answered by the integer decoder
deserialize_f64_as_integer(t, input) == deserialize_i64(t, input)

deserialize_f64(t, input) == DeErr("UnsupportedType", input)

deserialize_str(t, input) == Visit(t, "str", parse_string(input))

\* deserialize_identifier of a derived field or variant identifier: the
\* identifier visitor accepts every string
deserialize_identifier(input) == parse_string(input)

\* the cursor narrowed by deserialize_seq, deserialize_map and the dict arm
\* of deserialize_enum: &self.input[start_pos..self.input.len() - 1]
Narrow(input) == SubSeq(input, Find(input, ":") + 1, Len(input) - 1)

RECURSIVE Deserialize(_, _)
RECURSIVE deserialize_any(_, _)
RECURSIVE deserialize_seq(_, _)
RECURSIVE deserialize_map(_, _)
RECURSIVE deserialize_enum(_, _)
RECURSIVE VecLoop(_, _, _)
RECURSIVE InOrderLoop(_, _, _)
RECURSIVE IgnoredSeqLoop(_)
RECURSIVE StructLoop(_, _, _)
RECURSIVE MapLoop(_, _, _)
RECURSIVE IgnoredMapLoop(_)

\* Some(TNetStringType::<ty>) == parse_type(self.input).ok()
TypeIs(r, ty) == r.st = "Ok" /\ r.ty = ty

\* Vec's visit_seq after next_element answered r
VecElement(t, r, acc) ==
    IF r.st # "Ok" THEN Fail(r)
    ELSE VecLoop(t, r.input, Append(acc, r.val))

\* Vec's visit_seq: next_element until it answers None, which
\* SeqAccess::next_element_seed does exactly when the cursor is empty
VecLoop(t, input, acc) ==
    IF input = <<>> THEN DeOk(input, VSeq(acc))
    ELSE VecElement(t, Deserialize(t, input), acc)

InOrderElement(ts, r, acc) ==
    IF r.st # "Ok" THEN Fail(r)
    ELSE InOrderLoop(Tail(ts), r.input, Append(acc, r.val))

\* the visit_seq of a tuple or of a derived struct: one next_element per
\* type of ts, an error when it answers None
InOrderLoop(ts, input, acc) ==
    IF ts = <<>> THEN DeOk(input, VSeq(acc))
    ELSE IF input = <<>> THEN DeErr("Message", input)
    ELSE InOrderElement(ts, Deserialize(ts[1], input), acc)

IgnoredSeqElement(r) ==
    IF r.st # "Ok" THEN Fail(r) ELSE IgnoredSeqLoop(r.input)

\* IgnoredAny's visit_seq
IgnoredSeqLoop(input) ==
    IF input = <<>> THEN DeOk(input, VUnit)
    ELSE IgnoredSeqElement(Deserialize(Ignored, input))

\* the derived visit_map after next_value answered v for field i (0: unknown)
StructValue(t, i, v, slots) ==
    IF v.st # "Ok" THEN Fail(v)
    ELSE StructLoop(t, v.input,
                    IF i = 0 THEN slots ELSE [slots EXCEPT ![i] = <<v.val>>])

\* the derived visit_map on key number i: a field read twice is an error
StructField(t, i, input, slots) ==
    IF i # 0 /\ slots[i] # <<>> THEN DeErr("Message", input)
    ELSE StructValue(t, i,
                     Deserialize(IF i = 0 THEN Ignored ELSE t.of[i], input), slots)

\* the derived visit_map after next_key answered key
StructKey(t, key, slots) ==
    IF key.st # "Ok" THEN Fail(key)
    ELSE StructField(t, IndexOf(t.fields, key.val.s), key.input, slots)

\* the visit_map of a derived struct: next_key until None (the cursor is
\* empty), the key an identifier, the value by the field's type; slots[i]
\* is <<>> until field i is read and then <<its value>>
StructLoop(t, input, slots) ==
    IF input = <<>>
    THEN IF \E i \in 1..Len(slots) : slots[i] = <<>> /\ t.of[i].k # "option"
         THEN DeErr("Message", input)
         ELSE DeOk(input, VStruct([i \in 1..Len(slots) |->
                       IF slots[i] = <<>> THEN VNone ELSE slots[i][1]]))
    ELSE StructKey(t, deserialize_identifier(input), slots)

MapValue(t, k, v, entries) ==
    IF v.st # "Ok" THEN Fail(v)
    ELSE MapLoop(t, v.input, PutEntry(entries, k, v.val))

MapKey(t, key, entries) ==
    IF key.st # "Ok" THEN Fail(key)
    ELSE MapValue(t, key.val.s, Deserialize(t, key.input), entries)

\* the visit_map of BTreeMap<String, V>
MapLoop(t, input, entries) ==
    IF input = <<>> THEN DeOk(input, VMap(entries))
    ELSE MapKey(t, Deserialize(String, input), entries)

IgnoredMapValue(v) ==
    IF v.st # "Ok" THEN Fail(v) ELSE IgnoredMapLoop(v.input)

IgnoredMapKey(key) ==
    IF key.st # "Ok" THEN Fail(key)
    ELSE IgnoredMapValue(Deserialize(Ignored, key.input))

\* IgnoredAny's visit_map
IgnoredMapLoop(input) ==
    IF input = <<>> THEN DeOk(input, VUnit)
    ELSE IgnoredMapKey(Deserialize(Ignored, input))

\* visitor.visit_seq(&mut *self) for the visitor of type t
visit_seq(t, input) ==
    CASE t.k = "seq" -> VecLoop(t.of[1], input, <<>>)
      [] t.k = "tuple" -> InOrderLoop(t.of, input, <<>>)
      [] t.k = "struct" -> InOrderLoop(t.of, input, <<>>)
      [] t.k = "ignored" -> IgnoredSeqLoop(input)
      [] OTHER -> DeErr("Message", input)

\* what the visitor of type t makes of the elements visit_seq read
SeqValue(t, r) ==
    IF r.st = "Ok" /\ t.k = "struct" THEN DeOk(r.input, VStruct(r.val.kids))
    ELSE r

deserialize_seq(t, input) ==
    IF ~TypeIs(parse_type(input), "List") THEN DeErr("ParsingSeq", input)
    ELSE SeqValue(t, visit_seq(t, Narrow(input)))

\* visitor.visit_map(&mut *self) for the visitor of type t
visit_map(t, input) ==
    CASE t.k = "struct" -> StructLoop(t, input, [i \in 1..Len(t.of) |-> <<>>])
      [] t.k = "map" -> MapLoop(t.of[1], input, <<>>)
      [] t.k = "ignored" -> IgnoredMapLoop(input)
      [] OTHER -> DeErr("Message", input)

deserialize_map(t, input) ==
    IF ~TypeIs(parse_type(input), "Dict") THEN DeErr("ParsingMap", input)
    ELSE visit_map(t, Narrow(input))

VariantNames(t) == [i \in 1..Len(t.variants) |-> t.variants[i].name]

\* the string arm of deserialize_enum: the variant is named by the frame's
\* content, and visit_enum asks it for a unit variant
UnitVariant(t, ui) ==
    IF ui = 0 THEN DeErr("Message", <<>>)
    ELSE IF t.variants[ui].form # "unit" THEN DeErr("Message", <<>>)
    ELSE DeOk(<<>>, VVariant(ui, <<>>))

\* VariantAccess: the payload read by the variant's form
VariantPayload(var, input) ==
    CASE var.form = "unit" -> DeErr("ParsingUnitVariant", input)
      [] var.form = "newtype" -> Deserialize(var.of[1], input)
      [] var.form = "tuple" -> deserialize_seq(TupleOf(var.of), input)
      [] var.form = "struct" ->
            deserialize_map(StructOf(var.fields, var.of), input)

VariantValue(i, var, r) ==
    IF r.st # "Ok" THEN Fail(r)
    ELSE DeOk(r.input,
              VVariant(i, IF var.form = "newtype" THEN <<r.val>> ELSE r.val.kids))

\* the variant chosen by key number i of the enum's variant names
VariantOf(t, i, input) ==
    IF i = 0 THEN DeErr("Message", input)
    ELSE VariantValue(i, t.variants[i], VariantPayload(t.variants[i], input))

\* the dict arm of deserialize_enum: Enum::variant_seed reads the key
VariantKey(t, key) ==
    IF key.st # "Ok" THEN Fail(key)
    ELSE VariantOf(t, IndexOf(VariantNames(t), key.val.s), key.input)

EnumArms(t, input, ty) ==
    IF TypeIs(ty, "Str") THEN UnitVariant(t, IndexOf(VariantNames(t), Narrow(input)))
    ELSE IF TypeIs(ty, "Dict")
    THEN VariantKey(t, deserialize_identifier(Narrow(input)))
    ELSE DeErr("ParsingEnum", input)

\* an enum request answered by the map decoder
deserialize_enum_as_map(t, input) == deserialize_map(t, input)

deserialize_enum(t, input) == EnumArms(t, input, parse_type(input))

OptionSome(r) ==
    IF r.st # "Ok" THEN Fail(r) ELSE DeOk(r.input, VSome(r.val))

deserialize_option(t, input) ==
    IF StartsWith(input, Nil3) THEN DeOk(From(input, Len(Nil3) + 1), VNone)
    ELSE OptionSome(Deserialize(t.of[1], input))

AnyArms(t, input, c) ==
    IF c.st # "Ok" THEN DeErr(c.err, input)
    ELSE CASE c.ch = "~" -> deserialize_unit(t, input)
           [] c.ch = "!" -> deserialize_bool(t, input)
           [] c.ch = "," -> deserialize_str(t, input)
           [] c.ch = "^" -> deserialize_f64(t, input)
           [] c.ch = "#" -> deserialize_i64(t, input)
           [] c.ch = "]" -> deserialize_seq(t, input)
           [] c.ch = "}" -> deserialize_map(t, input)
           [] OTHER -> DeErr("UnknownSegmentType", input)

deserialize_any(t, input) == AnyArms(t, input, last_char(input))

\* T::deserialize(&mut deserializer): the Deserialize impl of type t calls
\* the deserializer method of its shape (i8, i16, i32, u8, u16, tuples and
\* structs are forwarded to deserialize_any)
Deserialize(t, input) ==
    CASE t.k = "bool" -> deserialize_bool(t, input)
      [] t.k = "i64" -> deserialize_i64(t, input)
      [] t.k = "u32" -> deserialize_u32(t, input)
      [] t.k = "u64" -> deserialize_u64(t, input)
      [] t.k \in {"f32", "f64"} -> deserialize_f64(t, input)
      [] t.k = "str" -> deserialize_str(t, input)
      [] t.k = "unit" -> deserialize_unit(t, input)
      [] t.k = "option" -> deserialize_option(t, input)
      [] t.k = "seq" -> deserialize_seq(t, input)
      [] t.k = "map" -> deserialize_map(t, input)
      [] t.k = "enum" -> deserialize_enum(t, input)
      [] OTHER -> deserialize_any(t, input)

\* the end of from_str: Ok(t) if the cursor is empty, else UnusedParseData
EndOfInput(r) ==
    IF r.st # "Ok" THEN Fail(r)
    ELSE IF r.input = <<>> THEN r
    ELSE DeErr("UnusedParseData", r.input)

from_str(t, s) == EndOfInput(Deserialize(t, s))

(***************************************************************************)
(* The types and values the typed adapter is exercised with: the scalars,  *)
(* and the containers and enums of the test suites (de.rs and ser.rs       *)
(* tests), with a struct whose sequence field is not the last, a struct    *)
(* whose i32 field is followed by a string field, and struct variants of   *)
(* zero and two fields.                                                    *)
(***************************************************************************)
\* struct Test { int: u32, seq: Vec<String> } of de.rs test_struct
TestStruct == StructOf(<< <<"i", "n", "t">>, <<"s", "e", "q">> >>, <<U32, VecOf(String)>>)

\* the same fields, the sequence first
SeqFirstStruct == StructOf(<< <<"s", "e", "q">>, <<"i", "n", "t">> >>, <<VecOf(String), U32>>)

\* struct { a: i32, b: String }
IntThenStrStruct == StructOf(<< <<"a">>, <<"b">> >>, <<I32, String>>)

\* enum E of the test_enum tests, with two more struct variants
E ==
    EnumOf(<< Variant(<<"U", "n", "i", "t">>, "unit", <<>>, <<>>),
              Variant(<<"N", "e", "w", "t", "y", "p", "e">>, "newtype", <<>>, <<U32>>),
              Variant(<<"T", "u", "p", "l", "e">>, "tuple", <<>>, <<U32, U32>>),
              Variant(<<"S", "t", "r", "u", "c", "t">>, "struct", << <<"a">> >>, <<U32>>),
              Variant(<<"E", "m", "p", "t", "y">>, "struct", <<>>, <<>>),
              Variant(<<"P", "a", "i", "r">>, "struct", << <<"a">>, <<"b">> >>, <<U32, U32>>) >>)

Types ==
    { Scalar("bool"), Scalar("i8"), I32, Scalar("i64"), Scalar("u8"), U32,
      Scalar("u64"), String, Scalar("unit"),
      OptionOf(Scalar("i64")), OptionOf(String),
      VecOf(U32), VecOf(I32), VecOf(String), VecOf(VecOf(U32)), VecOf(E),
      TupleOf(<<U32, String>>),
      TestStruct, SeqFirstStruct, IntThenStrStruct,
      MapOf(U32), MapOf(VecOf(U32)),
      E }

MapKeyLists == { <<>>, << <<"a">> >>, << <<"b">> >>, << <<"a">>, <<"b">> >> }

RECURSIVE ValuesOf(_)
RECURSIVE Products(_)

\* the sequences whose i-th element is a value of the i-th type
Products(ts) ==
    IF ts = <<>> THEN {<<>>}
    ELSE { <<v>> \o r : v \in ValuesOf(ts[1]), r \in Products(Tail(ts)) }

ValuesOf(t) ==
    CASE t.k = "bool" -> {VBool(TRUE), VBool(FALSE)}
      [] t.k \in SignedKinds -> {VInt(0 - 1), VInt(0), VInt(10)}
      [] t.k \in UnsignedKinds -> {VInt(1), VInt(10)}
      [] t.k = "str" -> {VStr(<<>>), VStr(<<"a", "b">>)}
      [] t.k = "unit" -> {VUnit}
      [] t.k = "option" -> {VNone} \cup {VSome(v) : v \in ValuesOf(t.of[1])}
      [] t.k = "seq" ->
            { VSeq(kids) :
                kids \in UNION { [1..n -> ValuesOf(t.of[1])] : n \in 0..MaxSeqLen } }
      [] t.k = "tuple" -> { VSeq(kids) : kids \in Products(t.of) }
      [] t.k = "struct" -> { VStruct(kids) : kids \in Products(t.of) }
      [] t.k = "map" ->
            UNION { { VMap([i \in 1..Len(keys) |-> VEntry(keys[i], vals[i])])
                        : vals \in [1..Len(keys) -> ValuesOf(t.of[1])] }
                    : keys \in MapKeyLists }
      [] t.k = "enum" ->
            UNION { { VVariant(i, kids) : kids \in Products(t.variants[i].of) }
                    : i \in 1..Len(t.variants) }

(***************************************************************************)
(* The encoding the specification gives a typed value (its section 4.4 and *)
(* the wire grammar), used to state what to_string and from_str should do. *)
(***************************************************************************)
RECURSIVE Wire(_, _)
RECURSIVE WireEach(_, _)
RECURSIVE WireFields(_, _, _)
RECURSIVE WireEntries(_, _)

WireEach(ts, vs) ==
    IF vs = <<>> THEN <<>> ELSE Wire(ts[1], vs[1]) \o WireEach(Tail(ts), Tail(vs))

WireFields(names, ts, vs) ==
    IF vs = <<>> THEN <<>>
    ELSE Frame(names[1], ",") \o Wire(ts[1], vs[1])
         \o WireFields(Tail(names), Tail(ts), Tail(vs))

WireEntries(t, entries) ==
    IF entries = <<>> THEN <<>>
    ELSE Frame(entries[1].s, ",") \o Wire(t, entries[1].kids[1])
         \o WireEntries(t, Tail(entries))

Wire(t, v) ==
    CASE t.k = "bool" ->
            IF v.n = 1 THEN Frame(<<"t", "r", "u", "e">>, "!")
            ELSE Frame(<<"f", "a", "l", "s", "e">>, "!")
      [] t.k \in SignedKinds \cup UnsignedKinds -> Frame(IntText(v.n), "#")
      [] t.k = "str" -> Frame(v.s, ",")
      [] t.k = "unit" -> Frame(<<>>, "~")
      [] t.k = "option" ->
            IF v.k = "none" THEN Frame(<<>>, "~") ELSE Wire(t.of[1], v.kids[1])
      [] t.k = "seq" ->
            Frame(WireEach([i \in 1..Len(v.kids) |-> t.of[1]], v.kids), "]")
      [] t.k = "tuple" -> Frame(WireEach(t.of, v.kids), "]")
      [] t.k = "struct" -> Frame(WireFields(t.fields, t.of, v.kids), "}")
      [] t.k = "map" -> Frame(WireEntries(t.of[1], v.kids), "}")
      [] t.k = "enum" ->
            LET var == t.variants[v.n]
            IN  CASE var.form = "unit" -> Frame(var.name, ",")
                  [] var.form = "newtype" ->
                        Frame(Frame(var.name, ",") \o Wire(var.of[1], v.kids[1]), "}")
                  [] var.form = "tuple" ->
                        Frame(Frame(var.name, ",")
                              \o Frame(WireEach(var.of, v.kids), "]"), "}")
                  [] var.form = "struct" ->
                        Frame(Frame(var.name, ",")
                              \o Frame(WireFields(var.fields, var.of, v.kids), "}"), "}")

(***************************************************************************)
(* The typed adapter as a state machine.  A value scenario draws a type, a *)
(* value of it and the bytes that will follow its text; ToString encodes   *)
(* the value and FromStr decodes the text, followed by those bytes, as the *)
(* same type.  A text scenario draws a type and an input, and FromStr      *)
(* decodes it.                                                             *)
(***************************************************************************)
TypedExtras == { <<>>, <<"z">>, Nil3, Frame(<<"a">>, ",") }

ValueScenarios ==
    UNION { { [kind |-> "value", ty |-> t, val |-> v, extra |-> x, bytes |-> <<>>]
                : v \in ValuesOf(t), x \in TypedExtras } : t \in Types }

\* a frame whose declared length exceeds its payload by k
Overlong(payload, tag, k) ==
    DecText(Len(payload) + k) \o <<":">> \o payload \o <<tag>>

OverlongScenarios ==
    { [kind |-> "overlong", ty |-> t, val |-> VUnit, extra |-> <<>>,
       bytes |-> Overlong(d, "#", k)]
        : t \in {U32, Scalar("u64"), Scalar("i64"), I32},
          d \in {<<"1">>, <<"1", "0">>}, k \in 1..MaxExcess }
    \cup
    { [kind |-> "overlong", ty |-> String, val |-> VUnit, extra |-> <<>>,
       bytes |-> Overlong(d, ",", k)]
        : d \in {<<>>, <<"a", "b">>}, k \in 1..MaxExcess }

TextScenario(kind, t, v, bytes) ==
    [kind |-> kind, ty |-> t, val |-> v, extra |-> <<>>, bytes |-> bytes]

\* inputs handed to a bool request: the two literals and other '!' frames,
\* alone and followed by further bytes, and inputs that are no '!' frame
BoolScenarios ==
    { TextScenario("bool", Scalar("bool"), VUnit, Frame(b, "!") \o x)
        : b \in BoolPayloads, x \in TypedExtras }
    \cup
    { TextScenario("bool", Scalar("bool"), VUnit, b)
        : b \in { <<>>, SubSeq(True7, 1, 6), Frame(<<"1">>, "#"),
                  <<"0">> \o True7, <<"z">> \o False8 } }

FloatFrames == { Frame(<<"1", ".", "5">>, "^"), Frame(<<"1">>, "^"), Frame(<<>>, "^") }

\* inputs handed to a float request, and '^' frames handed to a request
\* that goes through deserialize_any
FloatScenarios ==
    { TextScenario("float", t, VUnit, b)
        : t \in {Scalar("f32"), Scalar("f64")},
          b \in FloatFrames \cup { f \o <<"z">> : f \in FloatFrames }
                \cup { <<>>, <<"z">>, Frame(<<"1">>, "#"), True7 } }
    \cup
    { TextScenario("float", t, VUnit, b)
        : t \in {I32, Scalar("u8"), Ignored, TupleOf(<<U32, String>>)},
          b \in FloatFrames }

UnitNames == { i \in 1..Len(E.variants) : E.variants[i].form = "unit" }

\* inputs handed to a request for the enum E: the name of a unit variant as
\* a string frame, a variant with a payload as a dict frame of one pair, a
\* unit variant as the key of a dict frame, and frames of other kinds
EnumScenarios ==
    { TextScenario("enum_name", E, VVariant(i, <<>>), Frame(E.variants[i].name, ","))
        : i \in UnitNames }
    \cup
    { TextScenario("enum_dict", E, v, Wire(E, v))
        : v \in { x \in ValuesOf(E) : x.n \notin UnitNames } }
    \cup
    { TextScenario("enum_unit_dict", E, VUnit,
                   Frame(Frame(E.variants[i].name, ",") \o payload, "}"))
        : i \in UnitNames, payload \in { Nil3, Frame(<<>>, "]"), Frame(<<>>, "}") } }
    \cup
    { TextScenario("enum_other", E, VUnit, b)
        : b \in FloatFrames \cup { Nil3, True7, Frame(<<"1">>, "#"), Frame(<<>>, "]"),
                                    Frame(Frame(<<"1">>, "#"), "]") } }

\* frames handed to an integer request: integer frames, frames with another
\* tag around a number, and '#' frames whose payload is no number
IntFrames ==
    { Frame(<<"7">>, "#"), Frame(<<"-", "1">>, "#"), Frame(<<"1", "0">>, "#"),
      Frame(<<"1">>, ","), Frame(<<"7">>, "~"), Frame(<<"7">>, "]"),
      Frame(<<"7">>, "!"), Frame(<<"1", "2">>, "^"),
      Frame(<<"a">>, "#"), Frame(<<"1", "a">>, "#"), Frame(<<"+">>, "#"),
      Frame(<<"-", "a">>, "#") }

IntScenarios ==
    { TextScenario("int", t, VUnit, b)
        : t \in {U32, Scalar("u64"), Scalar("i64"), I32, Scalar("u8")},
          b \in IntFrames }

InitCodec ==
    /\ ghost \in ValueScenarios \cup OverlongScenarios \cup BoolScenarios
                \cup FloatScenarios \cup EnumScenarios \cup IntScenarios
    /\ pc = IF ghost.kind = "value" THEN "start" ELSE "text"
    /\ data = ghost.bytes
    /\ res = NoResult
    /\ output = NewSerializer
    /\ profile \in {"debug", "release"}

\* to_string(&value): the serializer's final stack and the result; the text
\* handed on to from_str is the result followed by the scenario's extra bytes
ToString ==
    /\ pc = "start"
    /\ output' = Serialize(ghost.ty, ghost.val, output)
    /\ res' = to_string(ghost.ty, ghost.val)
    /\ data' = res'.text \o ghost.extra
    /\ pc' = "encoded"
    /\ UNCHANGED <<ghost, profile>>

\* from_str::<T>(data)
FromStr ==
    /\ \/ pc = "encoded" /\ res.st = "Ok"
       \/ pc = "text"
    /\ res' = from_str(ghost.ty, data)
    /\ pc' = "decoded"
    /\ UNCHANGED <<data, ghost, output, profile>>

\* the stack inside a sequence that already holds one element, "1:a,"
OpenSequence == serialize_str(serialize_seq(NewSerializer), <<"a">>)

\* value.serialize(&mut **self) inside that sequence: the next element
SerializeElement ==
    /\ pc = "start"
    /\ ghost.extra = <<>>
    /\ output' = Serialize(ghost.ty, ghost.val, OpenSequence)
    /\ pc' = "element"
    /\ UNCHANGED <<data, ghost, res, profile>>

\* T::deserialize(&mut Deserializer::from_str(data)): one value is decoded
\* and the cursor is left where the decoding left it
DeserializeValue ==
    /\ \/ pc = "encoded" /\ res.st = "Ok"
       \/ pc = "text"
    /\ res' = Deserialize(ghost.ty, data)
    /\ pc' = "deserialized"
    /\ UNCHANGED <<data, ghost, output, profile>>

\* parse(to_string(&value).as_bytes()): the text is handed to the untyped
\* parser
ParseEncoded ==
    /\ pc = "encoded" /\ res.st = "Ok" /\ ghost.extra = <<>>
    /\ res' = parse(data)
    /\ pc' = "parsed"
    /\ UNCHANGED <<data, ghost, output, profile>>

NextCodec ==
    ToString \/ FromStr \/ SerializeElement \/ DeserializeValue \/ ParseEncoded

SpecCodec == InitCodec /\ [][NextCodec]_vars

(***************************************************************************)
(* Claims about the typed adapter (checked under SpecCodec).               *)
(***************************************************************************)
\* C1: round trip: from_str(to_string(v)) returns Ok(v) for every value of
\* the supported shapes, nested sequences and maps with sibling frames and
\* self-describing integer fields followed by other fields included.
C1_RoundTrip ==
    (pc = "decoded" /\ ghost.kind = "value" /\ ghost.extra = <<>>)
        => (res.st = "Ok" /\ res.val = ghost.val)

\* C6: from_str on one well-formed frame of the requested type followed by
\* one or more extra bytes returns Err(UnusedParseData), for every shape.
C6_TrailingDataRejected ==
    (/\ pc = "decoded" /\ ghost.kind = "value" /\ ghost.extra # <<>>
     /\ data = Wire(ghost.ty, ghost.val) \o ghost.extra)
        => (res.st = "Err" /\ res.err = "UnusedParseData")

\* C7: decoding an integer or string frame whose declared length is larger
\* than the number of bytes that remain after the colon returns Err(Eof).
C7_OverlongIsEof ==
    (pc = "decoded" /\ ghost.kind = "overlong")
        => (res.st = "Err" /\ res.err = "Eof")

\* C9: to_string of a newtype, tuple or struct variant returns one dict
\* frame "{len}:{name-frame}{payload-frame}}", for struct variants of any
\* number of fields.
C9_VariantIsOneDictFrame ==
    (/\ pc = "encoded" /\ ghost.ty.k = "enum"
     /\ ghost.ty.variants[ghost.val.n].form # "unit")
        => (res.st = "Ok" /\ res.text = Wire(ghost.ty, ghost.val))

\* C10: when to_string finishes, the staging stack holds exactly one buffer,
\* that buffer is the returned text, and the result is never StackProblem.
C10_StackBalanced ==
    pc = "encoded"
        => (Len(output) = 1 /\ res.st = "Ok" /\ res.text = output[1])

RECURSIVE HasEnum(_)
\* an enum is the type or one of the types inside it
HasEnum(t) == t.k = "enum" \/ \E i \in 1..Len(t.of) : HasEnum(t.of[i])

\* C11: to_string of a sequence, tuple, map or struct whose elements are
\* scalars or further sequences and maps is "{len}:{content}]" or
\* "{len}:{content}}", content the elements' encodings in order and len its
\* byte length, at every nesting depth.
C11_ContainerFrames ==
    (/\ pc = "encoded"
     /\ ghost.ty.k \in {"seq", "tuple", "struct", "map"}
     /\ ~HasEnum(ghost.ty))
        => (res.st = "Ok" /\ res.text = Wire(ghost.ty, ghost.val))

\* C11 witness: vec![vec![10, 10]] has been encoded as "14:10:2:10#2:10#]]"
C11_Witness ==
    /\ pc = "encoded"
    /\ ghost.ty = VecOf(VecOf(U32))
    /\ ghost.val = VSeq(<<VSeq(<<VInt(10), VInt(10)>>)>>)
    /\ res.st = "Ok"
    /\ res.text = <<"1", "4", ":", "1", "0", ":", "2", ":", "1", "0", "#",
                    "2", ":", "1", "0", "#", "]", "]">>

\* C12: a dict frame whose first sub-frame is a well-formed frame that is
\* not a string is rejected with FoundNonStringKey, whatever bytes follow
\* that key frame in the payload.
C12_NonStringKeyRejected ==
    (pc = "parse" /\ ghost.kind = "badkey")
        => (res.st = "Err" /\ res.err = "FoundNonStringKey")

\* C14: a frame with tag '!' parses to Bool(true) if and only if its payload
\* is exactly 4 bytes long, and to Bool(false) for every other length; the
\* payload's bytes do not matter.
C14_BoolByLength ==
    (pc = "parse" /\ ghost.kind = "bool")
        => /\ res.st = "Ok"
           /\ res.val = Bool(PrefixLen(data) = 4)
           /\ res.val.n = 1 <=> Len(ghost.frame) = 7

\* C14 witness: b"4:xyz%!" has parsed to Bool(true)
C14_Witness ==
    /\ pc = "parse"
    /\ ghost.kind = "bool"
    /\ data = <<"4", ":", "x", "y", "z", "%", "!">>
    /\ res.st = "Ok" /\ res.val = Bool(TRUE)

\* C16: a frame with tag '~' parses to Null exactly when its payload is
\* empty and fails with NoneZeroLengthNull otherwise; an input whose byte
\* after a zero-length payload is not a tag fails with UnknownSegmentType.
C16_NullFrames ==
    (pc = "parse" /\ ghost.kind = "null")
        => IF ghost.bytes \in NullMistagged
           THEN res.st = "Err" /\ res.err = "UnknownSegmentType"
           ELSE IF PrefixLen(data) = 0
           THEN res.st = "Ok" /\ res.val = Null /\ res.remain = ghost.extra
           ELSE res.st = "Err" /\ res.err = "NoneZeroLengthNull"

\* C16 witness: b"1:a~" has been rejected with NoneZeroLengthNull
C16_Witness ==
    /\ pc = "parse"
    /\ ghost.kind = "null"
    /\ data = <<"1", ":", "a", "~">>
    /\ res.st = "Err" /\ res.err = "NoneZeroLengthNull"

\* C13: a string frame naming a unit variant decodes to that variant; a
\* dict frame of one pair, the variant's name and its payload, decodes to
\* the newtype, tuple or struct variant; a unit variant named by the key
\* of a dict frame fails with ParsingUnitVariant, and a frame that is
\* neither a string nor a dict fails with ParsingEnum.
C13_EnumEncodings ==
    pc \in {"decoded", "deserialized"} =>
        /\ ghost.kind \in {"enum_name", "enum_dict"} =>
              (res.st = "Ok" /\ res.val = ghost.val)
        /\ ghost.kind = "enum_unit_dict" =>
              (res.st = "Err" /\ res.err = "ParsingUnitVariant")
        /\ ghost.kind = "enum_other" =>
              (res.st = "Err" /\ res.err = "ParsingEnum")

\* C13 witness: the struct variant Pair { a, b } has been decoded from its
\* dict frame
C13_Witness ==
    /\ pc = "decoded"
    /\ ghost.kind = "enum_dict"
    /\ ghost.val.n = 6 /\ Len(ghost.val.kids) = 2
    /\ data = Wire(E, ghost.val)
    /\ res.st = "Ok" /\ res.val = ghost.val

\* C15: decoding a bool succeeds only on a cursor that starts with the
\* literal "4:true!" (true, 7 bytes consumed) or "5:false!" (false, 8
\* bytes consumed); every other input fails with ParsingBool and the
\* cursor stays where it was.
C15_BoolLiteralsOnly ==
    (pc = "deserialized" /\ ghost.kind = "bool") =>
        IF Len(data) >= 7 /\ SubSeq(data, 1, 7) = <<"4", ":", "t", "r", "u", "e", "!">>
        THEN res.st = "Ok" /\ res.val = VBool(TRUE) /\ res.input = From(data, 8)
        ELSE IF Len(data) >= 8
                /\ SubSeq(data, 1, 8) = <<"5", ":", "f", "a", "l", "s", "e", "!">>
        THEN res.st = "Ok" /\ res.val = VBool(FALSE) /\ res.input = From(data, 9)
        ELSE res.st = "Err" /\ res.err = "ParsingBool" /\ res.input = data

\* C15 witness: "4:xyz%!" has been rejected with ParsingBool
C15_Witness ==
    /\ pc = "deserialized"
    /\ ghost.kind = "bool"
    /\ data = <<"4", ":", "x", "y", "z", "%", "!">>
    /\ res.st = "Err" /\ res.err = "ParsingBool" /\ res.input = data

\* C17: a request for an f32 or f64 fails with UnsupportedType for every
\* input, and so does a '^' frame reached through deserialize_any; the
\* cursor is not advanced.
C17_FloatUnsupported ==
    (pc \in {"decoded", "deserialized"} /\ ghost.kind = "float") =>
        /\ res.st = "Err" /\ res.err = "UnsupportedType"
        /\ pc = "deserialized" => res.input = data

\* C17 witness: the well-formed frame "3:1.5^" requested as an f64 has
\* been rejected with UnsupportedType
C17_Witness ==
    /\ pc = "deserialized"
    /\ ghost.kind = "float"
    /\ ghost.ty = Scalar("f64")
    /\ data = <<"3", ":", "1", ".", "5", "^">>
    /\ res.st = "Err" /\ res.err = "UnsupportedType" /\ res.input = data

\* C18: after one value of any shape is decoded from a cursor that holds
\* its frame followed by further bytes, the cursor is exactly those further
\* bytes.
C18_CursorPastFrame ==
    (/\ pc = "deserialized" /\ ghost.kind = "value" /\ ghost.extra # <<>>
     /\ data = Wire(ghost.ty, ghost.val) \o ghost.extra
     /\ res.st = "Ok")
        => res.input = ghost.extra

\* the types whose request goes through deserialize_any
AnyKinds == {"i8", "i16", "i32", "u8", "u16", "tuple", "struct"}

\* C19: deserialize_any decodes by the type tag of the frame at the cursor,
\* also when that frame is followed by sibling frames of other kinds.
C19_AnyByNextTag ==
    (/\ pc = "deserialized" /\ ghost.kind = "value" /\ ghost.ty.k \in AnyKinds
     /\ data = Wire(ghost.ty, ghost.val) \o ghost.extra)
        => res = AnyArms(ghost.ty, data,
                         [st |-> "Ok", err |-> "",
                          ch |-> data[Len(Wire(ghost.ty, ghost.val))]])

\* f is one complete frame: a length, a colon, that many bytes and a tag
IsOneFrame(f) == HasPrefix(f) /\ Len(AfterColon(f)) = PrefixLen(f) + 1

\* C20: serializing a value inside an open sequence appends one complete
\* frame to the top buffer: what earlier elements wrote stays an unchanged
\* prefix of it, and the buffers below the top are unchanged.
C20_AppendsOneFrame ==
    pc = "element" =>
        /\ Len(output) = Len(OpenSequence)
        /\ output[1] = OpenSequence[1]
        /\ StartsWith(output[2], OpenSequence[2])
        /\ IsOneFrame(From(output[2], Len(OpenSequence[2]) + 1))

\* C21: a length prefix is accepted only when its run of digits is not
\* empty and the byte right after the run is ':'; with no digit the
\* outcome is UnableToParseInt, and with another byte after the digits the
\* input is rejected, by parse_tag and so by split_data and parse.
C21_ColonRequired ==
    pc \in {"parse_tag", "split_data", "parse"} =>
        /\ DigitRun(data) = 0 => (res.st = "Err" /\ res.err = "UnableToParseInt")
        /\ (/\ DigitRun(data) >= 1 /\ DigitRun(data) < Len(data)
            /\ data[DigitRun(data) + 1] # ":") => res.st # "Ok"

\* d is an integer frame: a length prefix, a payload of that length made of
\* decimal digits, after a '-' when signed, and the tag '#'
IsIntFrame(d, signed) ==
    /\ HasPrefix(d)
    /\ Len(AfterColon(d)) > PrefixLen(d)
    /\ AfterColon(d)[PrefixLen(d) + 1] = "#"
    /\ LET payload == SubSeq(AfterColon(d), 1, PrefixLen(d))
       IN  \/ AllDigits(payload)
           \/ signed /\ payload # <<>> /\ payload[1] = "-" /\ AllDigits(Tail(payload))

\* C22: an integer request succeeds only on a frame with the tag '#' whose
\* payload is decimal digits, after an optional '-' for a signed target;
\* a frame with another tag or with another payload is answered with an
\* error value.
C22_IntegerFramesOnly ==
    (/\ pc \in {"decoded", "deserialized"} /\ ghost.kind = "int"
     /\ ~IsIntFrame(data, ghost.ty.k \in SignedKinds))
        => res.st = "Err"

\* the payload and the tag of a frame that starts d
PayloadOf(d) == SubSeq(AfterColon(d), 1, PrefixLen(d))

TagOf(d) == AfterColon(d)[PrefixLen(d) + 1]

RECURSIVE ExactFrames(_)
\* d is a run of frames, each with a length prefix that is the byte length
\* of its payload, the payloads of lists and dicts being such runs again
ExactFrames(d) ==
    \/ d = <<>>
    \/ /\ HasPrefix(d)
       /\ Len(AfterColon(d)) > PrefixLen(d)
       /\ TagOf(d) \in {"]", "}"} => ExactFrames(PayloadOf(d))
       /\ ExactFrames(From(AfterColon(d), PrefixLen(d) + 2))

\* C23: the text to_string returns for a value is one well-formed frame:
\* parse accepts it and leaves nothing, and every length prefix in it, at
\* every nesting level, is the byte length of the payload it precedes.
C23_OutputParses ==
    pc = "parsed" =>
        /\ res.st = "Ok" /\ res.remain = <<>>
        /\ ExactFrames(data)
        /\ Len(AfterColon(data)) = PrefixLen(data) + 1

(***************************************************************************)
(* Integer decoding at the width of the target.  The accumulators of       *)
(* parse_unsigned and parse_signed are u32, u64 and i64; such an integer   *)
(* is held as a sign and a magnitude in decimal digits, most significant   *)
(* first, so that its arithmetic can overflow and wrap where Rust's does.  *)
(***************************************************************************)
RECURSIVE Strip(_)
\* a magnitude without its leading zeros; zero is the empty magnitude
Strip(m) == IF m # <<>> /\ m[1] = 0 THEN Strip(Tail(m)) ELSE m

Big(neg, mag) == [neg |-> neg /\ Strip(mag) # <<>>, mag |-> Strip(mag)]

BigZero == Big(FALSE, <<>>)

LastDigit(m) == IF m = <<>> THEN 0 ELSE m[Len(m)]

Front(m) == IF m = <<>> THEN <<>> ELSE SubSeq(m, 1, Len(m) - 1)

RECURSIVE MagAdd(_, _, _)
\* a + b + carry, digit by digit from the last
MagAdd(a, b, carry) ==
    IF a = <<>> /\ b = <<>> THEN (IF carry = 0 THEN <<>> ELSE <<carry>>)
    ELSE Append(MagAdd(Front(a), Front(b),
                       (LastDigit(a) + LastDigit(b) + carry) \div 10),
                (LastDigit(a) + LastDigit(b) + carry) % 10)

RECURSIVE MagSub(_, _, _)
\* a - b - borrow for a >= b + borrow
MagSub(a, b, borrow) ==
    IF a = <<>> THEN <<>>
    ELSE Append(MagSub(Front(a), Front(b),
                       IF LastDigit(a) - LastDigit(b) - borrow < 0 THEN 1 ELSE 0),
                (LastDigit(a) - LastDigit(b) - borrow + 10) % 10)

MagLess(a, b) ==
    \/ Len(a) < Len(b)
    \/ /\ Len(a) = Len(b)
       /\ \E i \in 1..Len(a) : a[i] < b[i] /\ \A j \in 1..(i - 1) : a[j] = b[j]

BigNeg(x) == Big(~x.neg, x.mag)

BigAdd(x, y) ==
    IF x.neg = y.neg THEN Big(x.neg, MagAdd(x.mag, y.mag, 0))
    ELSE IF MagLess(x.mag, y.mag) THEN Big(y.neg, MagSub(y.mag, x.mag, 0))
    ELSE Big(x.neg, MagSub(x.mag, y.mag, 0))

BigLess(x, y) ==
    IF x.neg # y.neg THEN x.neg
    ELSE IF x.neg THEN MagLess(y.mag, x.mag)
    ELSE MagLess(x.mag, y.mag)

BigLeq(x, y) == ~BigLess(y, x)

\* x * 10
Times10(x) == Big(x.neg, Append(x.mag, 0))

\* an integer of at most three digits as a sign and a magnitude
Small(n) ==
    LET text == DecText(IF n < 0 THEN 0 - n ELSE n)
    IN  Big(n < 0, [i \in 1..Len(text) |-> DigitVal(text[i])])

\* Display for integers
BigText(x) ==
    (IF x.neg THEN <<"-">> ELSE <<>>)
        \o (IF x.mag = <<>> THEN <<"0">>
            ELSE [i \in 1..Len(x.mag) |-> Digits[x.mag[i] + 1]])

Two31 == <<2, 1, 4, 7, 4, 8, 3, 6, 4, 8>>

Two32 == <<4, 2, 9, 4, 9, 6, 7, 2, 9, 6>>

Two63 == <<9, 2, 2, 3, 3, 7, 2, 0, 3, 6, 8, 5, 4, 7, 7, 5, 8, 0, 8>>

Two64 == <<1, 8, 4, 4, 6, 7, 4, 4, 0, 7, 3, 7, 0, 9, 5, 5, 1, 6, 1, 6>>

\* an integer type: MIN, MAX and the modulus its arithmetic wraps by
Width(signed, half, full) ==
    [signed |-> signed,
     MIN |-> IF signed THEN Big(TRUE, half) ELSE BigZero,
     MAX |-> BigAdd(Big(FALSE, IF signed THEN half ELSE full), Small(0 - 1)),
     modulus |-> Big(FALSE, full)]

WidthI32 == Width(TRUE, Two31, Two32)

WidthI64 == Width(TRUE, Two63, Two64)

WidthU32 == Width(FALSE, Two31, Two32)

WidthU64 == Width(FALSE, Two63, Two64)

WidthOf(k) ==
    CASE k = "i32" -> WidthI32
      [] k = "i64" -> WidthI64
      [] k = "u32" -> WidthU32
      [] k = "u64" -> WidthU64

InWidth(x, w) == BigLeq(w.MIN, x) /\ BigLeq(x, w.MAX)

RECURSIVE Wrap(_, _)
\* x modulo the width's modulus, in the width's range
Wrap(x, w) ==
    IF BigLess(x, w.MIN) THEN Wrap(BigAdd(x, w.modulus), w)
    ELSE IF BigLess(w.MAX, x) THEN Wrap(BigAdd(x, BigNeg(w.modulus)), w)
    ELSE x

WOk(n) == [st |-> "Ok", n |-> n]

WPanic == [st |-> "Panic", n |-> BigZero]

\* the result of an arithmetic operator whose exact value is x: on overflow
\* a panic in a debug build, the wrapped value in a release build
Checked(x, w) ==
    IF InWidth(x, w) THEN WOk(x)
    ELSE IF profile = "debug" THEN WPanic
    ELSE WOk(Wrap(x, w))

\* T::from(c as i8 - b'0' as i8) of parse_signed, which cannot overflow for
\* an ASCII character, and T::from(c as u8 - b'0') of parse_unsigned, whose
\* u8 subtraction overflows for a character below '0'
Adder(c, w) ==
    IF w.signed THEN WOk(Small(Ascii(c) - 48))
    ELSE IF Ascii(c) < 48 /\ profile = "debug" THEN WPanic
    ELSE WOk(Small((Ascii(c) - 48) % 256))

\* a digit loop that adds every digit and negates the sum at the end
RECURSIVE AccPlain(_, _, _)
AccPlainNext(cs, r, w) ==
    IF r.st # "Ok" THEN r ELSE AccPlain(Tail(cs), r.n, w)

AccPlainAdd(cs, r, a, w) ==
    IF r.st # "Ok" THEN r
    ELSE IF a.st # "Ok" THEN a
    ELSE AccPlainNext(cs, Checked(BigAdd(r.n, a.n), w), w)

AccPlain(cs, num, w) ==
    IF cs = <<>> THEN WOk(num)
    ELSE AccPlainAdd(cs, Checked(Times10(num), w), Adder(cs[1], w), w)

NegateLast(r, is_negated, w) ==
    IF r.st # "Ok" \/ ~is_negated THEN r ELSE Checked(BigNeg(r.n), w)

AccNegateLast(cs, num, is_negated, w) ==
    NegateLast(AccPlain(cs, num, w), is_negated, w)

RECURSIVE AccWide(_, _, _, _)
AccNext(cs, r, is_negated, w) ==
    IF r.st # "Ok" THEN r ELSE AccWide(Tail(cs), r.n, is_negated, w)

\* num -= adder or num += adder, after num *= 10 gave r
AccAdd(cs, r, a, is_negated, w) ==
    IF r.st # "Ok" THEN r
    ELSE IF a.st # "Ok" THEN a
    ELSE AccNext(cs,
                 Checked(BigAdd(r.n, IF is_negated THEN BigNeg(a.n) ELSE a.n), w),
                 is_negated, w)

\* the digit loops of parse_unsigned and parse_signed at the width w:
\* num *= 10, then the digit is added, or subtracted when is_negated
AccWide(cs, num, is_negated, w) ==
    IF cs = <<>> THEN WOk(num)
    ELSE AccAdd(cs, Checked(Times10(num), w), Adder(cs[1], w), is_negated, w)

\* parse_unsigned::<T> and parse_signed::<T> for the integer type T of
\* width w; the result's val is the integer as a sign and a magnitude
parse_integer(input, w) ==
    LET p == Find(input, ":")
        prefix == SubSeq(input, 1, p - 1)
        val_len == ParseUsizeVal(prefix)
        cs == SubSeq(input, p + 1, p + val_len)
        is_negated == w.signed /\ cs # <<>> /\ cs[1] = "-"
        acc == AccWide(IF is_negated THEN Tail(cs) ELSE cs, BigZero, is_negated, w)
    IN  IF p = 0
        THEN DeErr(IF w.signed THEN "ParsingString" ELSE "ParsingUnsigned", input)
        ELSE IF ~ParseUsizeOk(prefix) THEN DeErr("ParsingUnsigned", input)
        ELSE IF p + val_len > Len(input) THEN DePanic
        ELSE IF acc.st = "Panic" THEN DePanic
        ELSE IF p + val_len + 1 > Len(input) THEN DePanic
        ELSE DeOk(From(input, p + val_len + 2), acc.n)

\* the range check of serde's visit_i64 for a target narrower than i64
VisitWide(r, w) ==
    IF r.st # "Ok" \/ InWidth(r.val, w) THEN r ELSE DeErr("Message", r.input)

\* the integers within MaxDelta of x
Near(x) == { BigAdd(x, Small(d)) : d \in (0 - MaxDelta)..MaxDelta }

IntTargets == { Scalar("i32"), Scalar("i64"), Scalar("u32"), Scalar("u64") }

\* integer frames around the ends of the target's range and around zero,
\* each with the integer its payload is the decimal text of
WideScenarios ==
    UNION { { TextScenario("wide", t, x, Frame(BigText(x), "#"))
                : x \in Near(WidthOf(t.k).MIN) \cup Near(WidthOf(t.k).MAX)
                        \cup Near(BigZero) }
            : t \in IntTargets }
    \cup
    { TextScenario("wide", t, x, Frame(<<"0", "0">> \o BigText(x), "#"))
        : t \in IntTargets, x \in { Small(7), WidthU32.MAX } }

InitInt ==
    /\ ghost \in WideScenarios
    /\ data = ghost.bytes
    /\ pc = "frame"
    /\ res = NoResult
    /\ output = NoOutput
    /\ profile \in {"debug", "release"}

\* i64::deserialize, u32::deserialize and u64::deserialize on the frame;
\* i32::deserialize reaches deserialize_i64 through deserialize_any
DeserializeInteger ==
    /\ pc = "frame"
    /\ res' = IF ghost.ty.k = "i32"
              THEN VisitWide(parse_integer(data, WidthI64), WidthI32)
              ELSE parse_integer(data, WidthOf(ghost.ty.k))
    /\ pc' = "integer"
    /\ UNCHANGED <<data, ghost, output, profile>>

NextInt == DeserializeInteger

SpecInt == InitInt /\ [][NextInt]_vars

\* C24: an integer frame whose payload is the decimal text of a value in
\* the range of the target decodes to exactly that value, with no overflow
\* on the way, the minimum and the maximum of i32 and i64 and the maximum
\* of u32 and u64 included.
C24_InRangeDecodes ==
    (pc = "integer" /\ InWidth(ghost.val, WidthOf(ghost.ty.k))) =>
        (res.st = "Ok" /\ res.val = ghost.val /\ res.input = <<>>)

\* C24 witness: "20:-9223372036854775808#" has been decoded to i64::MIN
C24_Witness ==
    /\ pc = "integer"
    /\ ghost.ty = Scalar("i64")
    /\ data = <<"2", "0", ":", "-", "9", "2", "2", "3", "3", "7", "2", "0", "3",
                "6", "8", "5", "4", "7", "7", "5", "8", "0", "8", "#">>
    /\ res.st = "Ok" /\ res.val = WidthI64.MIN

\* the error of the parse of the scenario's failing child frame
FailureOf(frame) == (CHOOSE f \in FailingFrames : f.bytes = frame).err

\* C25: when a child frame of a list or dict fails to parse, the first such
\* child in payload order decides the outcome: parse returns that child's
\* error and no partial List or Dict.
C25_FirstChildErrorWins ==
    (pc = "parse" /\ ghost.kind = "failchild") =>
        (res.st = "Err" /\ res.err = FailureOf(ghost.frame))

(***************************************************************************)
(* parse, step by step, with its call stack.  data is the input of the     *)
(* call being made, or remain_content inside a loop; output is the stack   *)
(* of the calls that are inside their list or dict loop, innermost last;   *)
(* res is the value the last finished call returned.                       *)
(***************************************************************************)
\* a call past split_data: its input, its locals content, type_tag and
\* remain; inside a loop remain_content, the input of the child call it is
\* waiting for, list_content and dict; inside parse_pair the parsed key and which of the
\* two parses is running
CallFrame(input, content, type_tag, remain) ==
    [input |-> input, content |-> content, type_tag |-> type_tag,
     remain |-> remain, remain_content |-> content, called |-> content,
     phase |-> "key",
     list_content |-> <<>>, dict |-> {}, key |-> Null]

\* a loop that leaves remain_content as it was before the child was parsed
keep_remain_content(remain_content, remain) == remain_content

\* remain_content = remain; at the end of an iteration of either loop
assign_remain_content(remain_content, remain) == remain

Top == output[Len(output)]

Pop == SubSeq(output, 1, Len(output) - 1)

ReplaceTop(f) == Append(Pop, f)

InitLoop ==
    /\ ghost \in ParseScenarios
    /\ data = ghost.bytes
    /\ pc = "call"
    /\ res = NoResult
    /\ output = <<>>
    /\ profile = "debug"

\* let (content, type_tag_content) = split_data(data)?; and
\* let (remain, type_tag) = take(type_tag_content, 1)?;
Enter ==
    /\ pc = "call"
    /\ LET sd == split_data(data)
           tk == take(sd.rest, 1)
       IN  IF sd.st # "Ok"
           THEN /\ res' = [st |-> sd.st, err |-> sd.err,
                           remain |-> NoBytes, val |-> Null]
                /\ pc' = "return"
                /\ output' = output
           ELSE IF tk.st # "Ok"
           THEN /\ res' = Err(tk.err)
                /\ pc' = "return"
                /\ output' = output
           ELSE /\ output' = Append(output,
                                    CallFrame(data, sd.taken, tk.taken[1], tk.rest))
                /\ pc' = "match"
                /\ res' = res
    /\ UNCHANGED <<data, ghost, profile>>

\* match type_tag: a list or dict starts its loop with remain_content =
\* content, every other arm returns
Match ==
    /\ pc = "match"
    /\ IF Top.type_tag \in {"]", "}"}
       THEN /\ data' = Top.content
            /\ pc' = "loop"
            /\ UNCHANGED <<res, output>>
       ELSE /\ res' = parse_scalar(Top.type_tag, Top.content, Top.remain)
            /\ output' = Pop
            /\ pc' = "return"
            /\ data' = data
    /\ UNCHANGED <<ghost, profile>>

\* if remain_content.is_empty() { return Ok(..) }, checked before each
\* iteration
LoopExit ==
    /\ pc = "loop" /\ data = <<>>
    /\ res' = Ok(data, IF Top.type_tag = "]" THEN List(Top.list_content)
                       ELSE Dict(Top.dict))
    /\ output' = Pop
    /\ pc' = "return"
    /\ UNCHANGED <<data, ghost, profile>>

\* parse(remain_content) of the list loop, and the parse of the key that
\* parse_pair(remain_content) starts with
LoopCall ==
    /\ pc = "loop" /\ data # <<>>
    /\ output' = ReplaceTop([Top EXCEPT !.called = data, !.phase = "key"])
    /\ pc' = "call"
    /\ UNCHANGED <<data, ghost, res, profile>>

\* the match on the result of parse(remain_content) in the list loop
ListReturn ==
    /\ pc = "return" /\ output # <<>> /\ Top.type_tag = "]"
    /\ IF res.st = "Ok"
       THEN /\ output' = ReplaceTop([Top EXCEPT
                    !.list_content = Append(@, res.val),
                    !.remain_content = assign_remain_content(@, res.remain)])
            /\ data' = assign_remain_content(Top.remain_content, res.remain)
            /\ pc' = "loop"
       ELSE /\ output' = Pop
            /\ UNCHANGED <<data, pc>>
    /\ UNCHANGED <<ghost, res, profile>>

\* parse_pair after parse(data)?: the value is parsed from what the key left
KeyReturn ==
    /\ pc = "return" /\ output # <<>> /\ Top.type_tag = "}" /\ Top.phase = "key"
    /\ IF res.st = "Ok"
       THEN /\ output' = ReplaceTop([Top EXCEPT !.key = res.val, !.phase = "value",
                                               !.called = res.remain])
            /\ data' = res.remain
            /\ pc' = "call"
       ELSE /\ output' = Pop
            /\ UNCHANGED <<data, pc>>
    /\ UNCHANGED <<ghost, res, profile>>

\* parse_pair after parse(remain)?: the match on the key, and the insert of
\* the dict loop
ValueReturn ==
    /\ pc = "return" /\ output # <<>> /\ Top.type_tag = "}" /\ Top.phase = "value"
    /\ IF res.st # "Ok"
       THEN /\ output' = Pop
            /\ UNCHANGED <<data, pc, res>>
       ELSE IF Top.key.k = "Str"
       THEN /\ output' = ReplaceTop([Top EXCEPT
                    !.dict = Insert(@, Top.key.s, res.val),
                    !.remain_content = assign_remain_content(@, res.remain)])
            /\ data' = assign_remain_content(Top.remain_content, res.remain)
            /\ pc' = "loop"
            /\ res' = res
       ELSE /\ output' = Pop
            /\ res' = Err("FoundNonStringKey")
            /\ UNCHANGED <<data, pc>>
    /\ UNCHANGED <<ghost, profile>>

\* the outermost call returns to the caller of parse
Finish ==
    /\ pc = "return" /\ output = <<>>
    /\ pc' = "done"
    /\ UNCHANGED <<data, ghost, res, output, profile>>

NextLoop ==
    \/ Enter \/ Match \/ LoopExit \/ LoopCall
    \/ ListReturn \/ KeyReturn \/ ValueReturn \/ Finish

\* the code runs on without waiting: a step that can be taken is taken
SpecLoop == InitLoop /\ [][NextLoop]_vars /\ WF_vars(NextLoop)

\* the steps return what the recursive definition of parse returns
StepsAgreeWithParse == pc = "done" => res = parse(ghost.bytes)

\* C26: parse terminates: every recursive call is made on fewer bytes than
\* the call that makes it was given, every successful parse of a child
\* leaves fewer bytes than it was given, a loop whose remaining payload is
\* empty returns at once, and the outermost call returns in the end.
C26_ParseTerminates ==
    /\ []((pc = "call" /\ output # <<>>) => Len(data) < Len(Top.input))
    /\ [][(pc = "return" /\ pc' \in {"loop", "call"})
             => Len(data') < Len(Top.called)]_vars
    /\ [][(pc = "loop" /\ data = <<>>) => (pc' = "return" /\ res'.st = "Ok")]_vars
    /\ <>(pc = "done")

\* C26 witness: a list nested in a list has parsed one child and has bytes
\* left for a second iteration
C26_Witness ==
    /\ pc = "loop"
    /\ Len(output) = 2
    /\ Top.type_tag = "]"
    /\ Len(Top.list_content) = 1
    /\ data # <<>>

====
